---- MODULE Spec2Model ----
(***************************************************************************)
(* chessian: iterative-deepening negamax search (chooser.rs), the static   *)
(* evaluator (eval.rs), the repetition-aware position wrapper              *)
(* (historyboard.rs), the stop predicate (timecontrol.rs) and the GUI's    *)
(* background eval workers (gui/src/main.rs).                              *)
(*                                                                         *)
(* The rules library (crate `chess`: move generation, make_move_new,       *)
(* status, piece_on, get_hash) is external.  It is represented by a finite *)
(* table of positions: piece placement, side to move, the moves the        *)
(* generator yields in generation order, and whether the side to move is   *)
(* in check.  The table is closed under its moves; a position's list keeps *)
(* the moves of the lines of play that are followed, and is empty exactly  *)
(* for the mated and stalemated positions.                                 *)
(*                                                                         *)
(* Conventions: Option<T> is a sequence of length 0 (None) or 1 (Some);    *)
(* a ChessMove is <<source, dest>>; squares are 0..63 (a1 = 0, h8 = 63);   *)
(* colours are 0 (White), 1 (Black); piece kinds are 0..5 (pawn, knight,   *)
(* bishop, rook, queen, king).  Rust arrays are 0-based, the sequences     *)
(* below are 1-based, so every table access adds one to each index.        *)
(***************************************************************************)
EXTENDS Integers, Sequences, FiniteSets, TLC

None == <<>>
Some(x) == <<x>>
IsSome(o) == Len(o) = 1
Unwrap(o) == o[1]

White == 0
Black == 1

(* ------------------------------ eval.rs ------------------------------ *)

PIECE_VALUES == <<100, 320, 333, 500, 900, 20000>>

DOUBLE_PAWN_SANCTION == 45

ENDGAME_PIECE_LIMIT == 20

SQUARE_SCORES ==
  <<
    <<
      <<0, 0, 0, 0, 0, 0, 0, 0,
        5, 10, 10, -20, -20, 10, 10, 5,
        5, -5, -10, 0, 0, -10, -5, 5,
        0, 0, 0, 20, 20, 0, 0, 0,
        5, 5, 10, 25, 25, 10, 5, 5,
        10, 10, 20, 30, 30, 20, 10, 10,
        50, 50, 50, 50, 50, 50, 50, 50,
        0, 0, 0, 0, 0, 0, 0, 0>>,
      <<-50, -40, -30, -30, -30, -30, -40, -50,
        -40, -20, 0, 5, 5, 0, -20, -40,
        -30, 5, 10, 15, 15, 10, 5, -30,
        -30, 0, 15, 20, 20, 15, 0, -30,
        -30, 5, 15, 20, 20, 15, 5, -30,
        -30, 0, 10, 15, 15, 10, 0, -30,
        -40, -20, 0, 0, 0, 0, -20, -40,
        -50, -40, -30, -30, -30, -30, -40, -50>>,
      <<-20, -10, -10, -10, -10, -10, -10, -20,
        -10, 5, 0, 0, 0, 0, 5, -10,
        -10, 10, 10, 10, 10, 10, 10, -10,
        -10, 0, 10, 10, 10, 10, 0, -10,
        -10, 5, 5, 10, 10, 5, 5, -10,
        -10, 0, 5, 10, 10, 5, 0, -10,
        -10, 0, 0, 0, 0, 0, 0, -10,
        -20, -10, -10, -10, -10, -10, -10, -20>>,
      <<0, 0, 0, 10, 10, 0, 0, 0,
        -10, 0, 0, 0, 0, 0, 0, -10,
        -10, 0, 0, 0, 0, 0, 0, -10,
        -10, 0, 0, 0, 0, 0, 0, -10,
        -10, 0, 0, 0, 0, 0, 0, -10,
        -10, 0, 0, 0, 0, 0, 0, -10,
        10, 20, 20, 20, 20, 20, 20, 10,
        0, 0, 0, 0, 0, 0, 0, 0>>,
      <<-20, -10, -10, -5, -5, -10, -10, -20,
        -10, 0, 5, 0, 0, 0, 0, -10,
        -10, 5, 5, 5, 5, 5, 0, -10,
        0, 0, 5, 5, 5, 5, 0, -5,
        -5, 0, 5, 5, 5, 5, 0, -5,
        -10, 0, 5, 5, 5, 5, 0, -10,
        -10, 0, 0, 0, 0, 0, 0, -10,
        -20, -10, -10, -5, -5, -10, -10, -20>>,
      <<10, 20, 10, 0, 0, 10, 20, 10,
        10, 10, 0, 0, 0, 0, 10, 10,
        -10, -20, -20, -20, -20, -20, -20, -10,
        -20, -30, -30, -40, -40, -30, -30, -20,
        -30, -40, -40, -50, -50, -40, -40, -30,
        -30, -40, -40, -50, -50, -40, -40, -30,
        -30, -40, -40, -50, -50, -40, -40, -30,
        -30, -40, -40, -50, -50, -40, -40, -30>>
    >>,
    <<
      <<0, 0, 0, 0, 0, 0, 0, 0,
        50, 50, 50, 50, 50, 50, 50, 50,
        10, 10, 20, 30, 30, 20, 10, 10,
        5, 5, 10, 25, 25, 10, 5, 5,
        0, 0, 0, 20, 20, 0, 0, 0,
        5, -5, -10, 0, 0, -10, -5, 5,
        5, 10, 10, -20, -20, 10, 10, 5,
        0, 0, 0, 0, 0, 0, 0, 0>>,
      <<-50, -40, -30, -30, -30, -30, -40, -50,
        -40, -20, 0, 5, 5, 0, -20, -40,
        -30, 5, 10, 15, 15, 10, 5, -30,
        -30, 0, 15, 20, 20, 15, 0, -30,
        -30, 5, 15, 20, 20, 15, 5, -30,
        -30, 0, 10, 15, 15, 10, 0, -30,
        -40, -20, 0, 0, 0, 0, -20, -40,
        -50, -40, -30, -30, -30, -30, -40, -50>>,
      <<-20, -10, -10, -10, -10, -10, -10, -20,
        -10, 0, 0, 0, 0, 0, 0, -10,
        -10, 0, 5, 10, 10, 5, 0, -10,
        -10, 5, 5, 10, 10, 5, 5, -10,
        -10, 0, 10, 10, 10, 10, 0, -10,
        -10, 10, 10, 10, 10, 10, 10, -10,
        -10, 5, 0, 0, 0, 0, 5, -10,
        -20, -10, -10, -10, -10, -10, -10, -20>>,
      <<0, 0, 0, 0, 0, 0, 0, 0,
        5, 10, 10, 10, 10, 10, 10, 5,
        -5, 0, 0, 0, 0, 0, 0, -5,
        -5, 0, 0, 0, 0, 0, 0, -5,
        -5, 0, 0, 0, 0, 0, 0, -5,
        -5, 0, 0, 0, 0, 0, 0, -5,
        -5, 0, 0, 0, 0, 0, 0, -5,
        0, 0, 0, 5, 5, 0, 0, 0>>,
      <<-20, -10, -10, -5, -5, -10, -10, -20,
        -10, 0, 5, 0, 0, 0, 0, -10,
        -10, 5, 5, 5, 5, 5, 0, -10,
        0, 0, 5, 5, 5, 5, 0, -5,
        -5, 0, 5, 5, 5, 5, 0, -5,
        -10, 0, 5, 5, 5, 5, 0, -10,
        -10, 0, 0, 0, 0, 0, 0, -10,
        -20, -10, -10, -5, -5, -10, -10, -20>>,
      <<-30, -40, -40, -50, -50, -40, -40, -30,
        -30, -40, -40, -50, -50, -40, -40, -30,
        -30, -40, -40, -50, -50, -40, -40, -30,
        -30, -40, -40, -50, -50, -40, -40, -30,
        -20, -30, -30, -40, -40, -30, -30, -20,
        -10, -20, -20, -20, -20, -20, -20, -10,
        10, 10, 0, 0, 0, 0, 10, 10,
        10, 20, 10, 0, 0, 10, 20, 10>>
    >>
  >>

ENDGAME_PAWN_SCORES ==
  <<
    <<0, 0, 0, 0, 0, 0, 0, 0,
      0, 0, 0, 0, 0, 0, 0, 0,
      15, 15, 15, 15, 15, 15, 15, 15,
      20, 20, 20, 20, 20, 20, 20, 20,
      25, 25, 25, 25, 25, 25, 25, 25,
      30, 30, 30, 30, 30, 30, 30, 30,
      35, 35, 35, 35, 35, 35, 35, 35,
      40, 40, 40, 40, 40, 40, 40, 40>>,
    <<40, 40, 40, 40, 40, 40, 40, 40,
      35, 35, 35, 35, 35, 35, 35, 35,
      30, 30, 30, 30, 30, 30, 30, 30,
      25, 25, 25, 25, 25, 25, 25, 25,
      20, 20, 20, 20, 20, 20, 20, 20,
      15, 15, 15, 15, 15, 15, 15, 15,
      0, 0, 0, 0, 0, 0, 0, 0,
      0, 0, 0, 0, 0, 0, 0, 0>>
  >>

ENDGAME_KING_SCORES ==
  <<
    <<-50, -40, -30, -20, -20, -30, -40, -50,
      -30, -20, -10, 0, 0, -10, -20, -30,
      -30, -10, 20, 30, 30, 20, -10, -30,
      -30, -10, 30, 40, 40, 30, -10, -30,
      -30, -10, 30, 40, 40, 30, -10, -30,
      -30, -10, 20, 30, 30, 20, -10, -30,
      -30, -30, 0, 0, 0, 0, -30, -30,
      -50, -30, -30, -30, -30, -30, -30, -50>>,
    <<-50, -30, -30, -30, -30, -30, -30, -50,
      -30, -30, 0, 0, 0, 0, -30, -30,
      -30, -10, 20, 30, 30, 20, -10, -30,
      -30, -10, 30, 40, 40, 30, -10, -30,
      -30, -10, 30, 40, 40, 30, -10, -30,
      -30, -10, 20, 30, 30, 20, -10, -30,
      -30, -20, -10, 0, 0, -10, -20, -30,
      -50, -40, -30, -20, -20, -30, -40, -50>>
  >>

(* ------------------------- the rules library ------------------------- *)
(* One entry per position 1..NumPositions.  PosPieces lists the occupied  *)
(* squares in ascending order as <<square, colour, piece>>.               *)

PosSide ==
  <<0, 1, 1, 1, 0, 1, 1, 0, 1, 1, 0, 1, 0, 1, 0, 1, 0, 1, 0, 0, 1, 1, 0, 0, 0, 0, 1, 1, 1, 1, 1, 0, 0, 0, 0, 1, 1, 1, 0, 0, 1, 0, 1, 0, 1, 0, 1, 0, 1, 0, 1, 0, 1, 0, 1, 0, 1, 0, 1, 0>>

PosInCheck ==
  <<FALSE, FALSE, TRUE, FALSE, FALSE, TRUE, FALSE, FALSE, FALSE, FALSE, FALSE, FALSE, FALSE, FALSE, FALSE, FALSE, TRUE, FALSE, TRUE, FALSE, FALSE, FALSE, FALSE, FALSE, FALSE, FALSE, FALSE, FALSE, FALSE, FALSE, FALSE, FALSE, FALSE, FALSE, FALSE, FALSE, FALSE, FALSE, FALSE, FALSE, FALSE, FALSE, FALSE, FALSE, FALSE, FALSE, FALSE, FALSE, FALSE, FALSE, FALSE, FALSE, FALSE, FALSE, FALSE, FALSE, FALSE, FALSE, FALSE, FALSE>>

PosPieces ==
  <<
    <<<<38, 0, 4>>, <<53, 0, 5>>, <<63, 1, 5>>>> ,  \* 1 A
    <<<<46, 0, 4>>, <<53, 0, 5>>, <<63, 1, 5>>>> ,  \* 2 Ast
    <<<<53, 0, 5>>, <<54, 0, 4>>, <<63, 1, 5>>>> ,  \* 3 Amt
    <<<<38, 0, 4>>, <<61, 0, 5>>, <<63, 1, 5>>>> ,  \* 4 B
    <<<<38, 0, 4>>, <<55, 1, 5>>, <<61, 0, 5>>>> ,  \* 5 C
    <<<<54, 0, 4>>, <<55, 1, 5>>, <<61, 0, 5>>>> ,  \* 6 Cmt
    <<<<38, 0, 4>>, <<53, 0, 5>>, <<55, 1, 5>>>> ,  \* 7 D
    <<<<42, 0, 5>>, <<48, 0, 0>>, <<56, 1, 5>>>> ,  \* 8 S0
    <<<<41, 0, 5>>, <<48, 0, 0>>, <<56, 1, 5>>>> ,  \* 9 S1
    <<<<48, 0, 0>>, <<50, 0, 5>>, <<56, 1, 5>>>> ,  \* 10 S2
    <<<<48, 1, 5>>, <<50, 0, 5>>>> ,  \* 11 S3
    <<<<42, 0, 5>>, <<48, 1, 5>>>> ,  \* 12 S4
    <<<<42, 0, 5>>, <<56, 1, 5>>>> ,  \* 13 S5
    <<<<50, 0, 5>>, <<56, 1, 5>>>> ,  \* 14 S6
    <<<<6, 0, 5>>, <<8, 1, 4>>, <<22, 1, 5>>>> ,  \* 15 L0
    <<<<7, 0, 5>>, <<8, 1, 4>>, <<22, 1, 5>>>> ,  \* 16 L1
    <<<<7, 0, 5>>, <<15, 1, 4>>, <<22, 1, 5>>>> ,  \* 17 L1m
    <<<<5, 0, 5>>, <<8, 1, 4>>, <<22, 1, 5>>>> ,  \* 18 L2
    <<<<5, 0, 5>>, <<13, 1, 4>>, <<22, 1, 5>>>> ,  \* 19 L2m
    <<<<4, 0, 5>>, <<28, 0, 0>>, <<35, 1, 0>>, <<42, 1, 0>>, <<60, 1, 5>>>> ,  \* 20 T1
    <<<<12, 0, 5>>, <<28, 0, 0>>, <<35, 1, 0>>, <<42, 1, 0>>, <<60, 1, 5>>>> ,  \* 21 T2
    <<<<4, 0, 5>>, <<35, 0, 0>>, <<42, 1, 0>>, <<60, 1, 5>>>> ,  \* 22 T3
    <<<<12, 0, 5>>, <<28, 1, 0>>, <<42, 1, 0>>, <<60, 1, 5>>>> ,  \* 23 T4
    <<<<12, 0, 5>>, <<28, 0, 0>>, <<35, 1, 0>>, <<42, 1, 0>>, <<52, 1, 5>>>> ,  \* 24 T5
    <<<<4, 0, 5>>, <<35, 1, 0>>, <<60, 1, 5>>>> ,  \* 25 T6
    <<<<4, 0, 5>>, <<35, 0, 0>>, <<42, 1, 0>>, <<52, 1, 5>>>> ,  \* 26 T7
    <<<<4, 0, 5>>, <<28, 1, 0>>, <<42, 1, 0>>, <<60, 1, 5>>>> ,  \* 27 T8
    <<<<4, 0, 5>>, <<28, 0, 0>>, <<35, 1, 0>>, <<42, 1, 0>>, <<52, 1, 5>>>> ,  \* 28 T9
    <<<<12, 0, 5>>, <<35, 0, 0>>, <<42, 1, 0>>, <<52, 1, 5>>>> ,  \* 29 T10
    <<<<12, 0, 5>>, <<35, 1, 0>>, <<60, 1, 5>>>> ,  \* 30 T11
    <<<<4, 0, 5>>, <<42, 0, 0>>, <<52, 1, 5>>>> ,  \* 31 T12
    <<<<4, 0, 5>>, <<28, 1, 0>>, <<42, 1, 0>>, <<52, 1, 5>>>> ,  \* 32 T13
    <<<<12, 0, 5>>, <<35, 1, 0>>, <<52, 1, 5>>>> ,  \* 33 T14
    <<<<12, 0, 5>>, <<35, 0, 0>>, <<42, 1, 0>>, <<60, 1, 5>>>> ,  \* 34 T15
    <<<<4, 0, 5>>, <<42, 0, 0>>, <<60, 1, 5>>>> ,  \* 35 T16
    <<<<12, 0, 5>>, <<28, 1, 0>>, <<42, 1, 0>>, <<52, 1, 5>>>> ,  \* 36 T17
    <<<<4, 0, 5>>, <<35, 1, 0>>, <<52, 1, 5>>>> ,  \* 37 T18
    <<<<12, 0, 5>>, <<42, 0, 0>>, <<60, 1, 5>>>> ,  \* 38 T19
    <<<<12, 0, 5>>, <<42, 0, 0>>, <<52, 1, 5>>>> ,  \* 39 T20
    <<<<2, 0, 5>>, <<8, 0, 0>>, <<63, 1, 5>>>> ,  \* 40 H0
    <<<<2, 0, 5>>, <<24, 0, 0>>, <<63, 1, 5>>>> ,  \* 41 HX1
    <<<<2, 0, 5>>, <<24, 0, 0>>, <<62, 1, 5>>>> ,  \* 42 HX2
    <<<<9, 0, 5>>, <<24, 0, 0>>, <<62, 1, 5>>>> ,  \* 43 HX3
    <<<<9, 0, 5>>, <<24, 0, 0>>, <<63, 1, 5>>>> ,  \* 44 HX4
    <<<<8, 0, 0>>, <<9, 0, 5>>, <<63, 1, 5>>>> ,  \* 45 HY1
    <<<<8, 0, 0>>, <<9, 0, 5>>, <<62, 1, 5>>>> ,  \* 46 HY2
    <<<<8, 0, 0>>, <<18, 0, 5>>, <<62, 1, 5>>>> ,  \* 47 HY3
    <<<<8, 0, 0>>, <<18, 0, 5>>, <<63, 1, 5>>>> ,  \* 48 HY4
    <<<<1, 0, 5>>, <<8, 0, 0>>, <<63, 1, 5>>>> ,  \* 49 HZ1
    <<<<1, 0, 5>>, <<8, 0, 0>>, <<62, 1, 5>>>> ,  \* 50 HZ2
    <<<<2, 0, 5>>, <<8, 0, 0>>, <<62, 1, 5>>>> ,  \* 51 HZ3
    <<<<4, 0, 5>>, <<26, 0, 0>>, <<28, 0, 0>>, <<35, 1, 0>>, <<60, 1, 5>>>> ,  \* 52 Q0
    <<<<4, 0, 5>>, <<28, 0, 0>>, <<35, 0, 0>>, <<60, 1, 5>>>> ,  \* 53 QC1
    <<<<4, 0, 5>>, <<28, 0, 0>>, <<35, 0, 0>>, <<52, 1, 5>>>> ,  \* 54 QC2
    <<<<12, 0, 5>>, <<28, 0, 0>>, <<35, 0, 0>>, <<52, 1, 5>>>> ,  \* 55 QC3
    <<<<12, 0, 5>>, <<28, 0, 0>>, <<35, 0, 0>>, <<60, 1, 5>>>> ,  \* 56 QC4
    <<<<4, 0, 5>>, <<26, 0, 0>>, <<35, 0, 0>>, <<60, 1, 5>>>> ,  \* 57 QE1
    <<<<4, 0, 5>>, <<26, 0, 0>>, <<35, 0, 0>>, <<52, 1, 5>>>> ,  \* 58 QE2
    <<<<12, 0, 5>>, <<26, 0, 0>>, <<35, 0, 0>>, <<52, 1, 5>>>> ,  \* 59 QE3
    <<<<12, 0, 5>>, <<26, 0, 0>>, <<35, 0, 0>>, <<60, 1, 5>>>>   \* 60 QE4
  >>

PosMoves ==
  <<
    <<<<38, 46>>, <<38, 54>>, <<53, 61>>>>,  \* 1 A
    <<>>,  \* 2 Ast
    <<>>,  \* 3 Amt
    <<<<63, 55>>>>,  \* 4 B
    <<<<61, 53>>, <<38, 54>>>>,  \* 5 C
    <<>>,  \* 6 Cmt
    <<<<55, 63>>>>,  \* 7 D
    <<<<42, 50>>, <<42, 41>>>>,  \* 8 S0
    <<>>,  \* 9 S1
    <<<<56, 48>>>>,  \* 10 S2
    <<<<50, 42>>>>,  \* 11 S3
    <<<<48, 56>>>>,  \* 12 S4
    <<<<42, 50>>>>,  \* 13 S5
    <<<<56, 48>>>>,  \* 14 S6
    <<<<6, 7>>, <<6, 5>>>>,  \* 15 L0
    <<<<8, 15>>>>,  \* 16 L1
    <<>>,  \* 17 L1m
    <<<<8, 13>>>>,  \* 18 L2
    <<>>,  \* 19 L2m
    <<<<4, 12>>, <<28, 35>>>>,  \* 20 T1
    <<<<35, 28>>, <<60, 52>>>>,  \* 21 T2
    <<<<42, 35>>, <<60, 52>>>>,  \* 22 T3
    <<<<12, 4>>>>,  \* 23 T4
    <<<<12, 4>>, <<28, 35>>>>,  \* 24 T5
    <<<<4, 12>>>>,  \* 25 T6
    <<<<4, 12>>, <<35, 42>>>>,  \* 26 T7
    <<<<60, 52>>>>,  \* 27 T8
    <<<<35, 28>>, <<52, 60>>>>,  \* 28 T9
    <<<<42, 35>>, <<52, 60>>>>,  \* 29 T10
    <<<<60, 52>>>>,  \* 30 T11
    <<<<52, 60>>>>,  \* 31 T12
    <<<<4, 12>>>>,  \* 32 T13
    <<<<12, 4>>>>,  \* 33 T14
    <<<<12, 4>>, <<35, 42>>>>,  \* 34 T15
    <<<<4, 12>>>>,  \* 35 T16
    <<<<52, 60>>>>,  \* 36 T17
    <<<<52, 60>>>>,  \* 37 T18
    <<<<60, 52>>>>,  \* 38 T19
    <<<<12, 4>>>>,  \* 39 T20
    <<<<8, 24>>, <<2, 1>>, <<2, 9>>>>,  \* 40 H0
    <<<<63, 62>>>>,  \* 41 HX1
    <<<<2, 9>>>>,  \* 42 HX2
    <<<<62, 63>>>>,  \* 43 HX3
    <<<<9, 2>>>>,  \* 44 HX4
    <<<<63, 62>>>>,  \* 45 HY1
    <<<<8, 24>>, <<9, 18>>>>,  \* 46 HY2
    <<<<62, 63>>>>,  \* 47 HY3
    <<<<18, 9>>>>,  \* 48 HY4
    <<<<63, 62>>>>,  \* 49 HZ1
    <<<<1, 2>>>>,  \* 50 HZ2
    <<<<62, 63>>>>,  \* 51 HZ3
    <<<<26, 35>>, <<28, 35>>>>,  \* 52 Q0
    <<<<60, 52>>>>,  \* 53 QC1
    <<<<4, 12>>>>,  \* 54 QC2
    <<<<52, 60>>>>,  \* 55 QC3
    <<<<12, 4>>>>,  \* 56 QC4
    <<<<60, 52>>>>,  \* 57 QE1
    <<<<4, 12>>>>,  \* 58 QE2
    <<<<52, 60>>>>,  \* 59 QE3
    <<<<12, 4>>>>  \* 60 QE4
  >>

(* Zobrist hash of each position.  Position 3 is given the hash of       *)
(* position 5: 64-bit hashes of distinct positions may coincide, and the *)
(* repetition map is keyed by hash, not by position.                     *)
PosHash ==
  <<1, 2, 5, 4, 5, 6, 7, 8, 9, 10, 11, 12, 13, 14, 15, 16, 17, 18, 19, 20,
    21, 22, 23, 24, 25, 26, 27, 28, 29, 30, 31, 32, 33, 34, 35, 36, 37, 38, 39,
    40, 41, 42, 43, 44, 45, 46, 47, 48, 49, 50, 51,
    52, 53, 54, 55, 56, 57, 58, 59, 60>>

Positions == 1..Len(PosSide)

Hashes == {PosHash[b] : b \in Positions}

Range(s) == {s[k] : k \in DOMAIN s}

side_to_move(b) == PosSide[b]

get_hash(b) == PosHash[b]

\* Board::piece_on: the piece kind on a square, if any.
piece_on(b, s) ==
  LET hit == {k \in DOMAIN PosPieces[b] : PosPieces[b][k][1] = s}
  IN  IF hit = {} THEN None ELSE Some(PosPieces[b][CHOOSE k \in hit : TRUE][3])

\* MoveGen::new_legal: the legal moves, in generation order.
new_legal(b) == PosMoves[b]

\* The placement after a move: the mover leaves its source and replaces
\* whatever stood on the destination.
MovedPieces(b, m) ==
  LET mover == CHOOSE t \in Range(PosPieces[b]) : t[1] = m[1]
  IN  {t \in Range(PosPieces[b]) : t[1] # m[1] /\ t[1] # m[2]}
        \cup {<<m[2], mover[2], mover[3]>>}

Successors ==
  [b \in Positions |->
     [m \in Range(PosMoves[b]) |->
        CHOOSE q \in Positions :
          /\ PosSide[q] = 1 - PosSide[b]
          /\ Range(PosPieces[q]) = MovedPieces(b, m)]]

\* Board::make_move_new
make_move_new(b, m) == Successors[b][m]

\* Board::status
Board_status(b) ==
  IF PosMoves[b] # <<>> THEN "Ongoing"
  ELSE IF PosInCheck[b] THEN "Checkmate" ELSE "Stalemate"

(* ------------------------------ eval.rs ------------------------------ *)

\* One piece's contribution, as the piece_values! macro adds it for its
\* colour: t = <<square, colour, piece>>.
piece_values(t, is_endgame) ==
  LET sq == t[1] + 1
      c  == t[2] + 1
      p  == t[3] + 1
  IN  CASE t[3] = 0 ->
             IF is_endgame
               THEN SQUARE_SCORES[c][1][sq] + PIECE_VALUES[1] + ENDGAME_PAWN_SCORES[c][sq]
               ELSE SQUARE_SCORES[c][1][sq] + PIECE_VALUES[1]
        [] t[3] = 5 ->
             IF is_endgame
               THEN ENDGAME_KING_SCORES[c][sq]
               ELSE SQUARE_SCORES[c][6][sq] + PIECE_VALUES[6]
        [] OTHER -> SQUARE_SCORES[c][p][sq] + PIECE_VALUES[p]

RECURSIVE SumPieces(_, _, _)
SumPieces(ps, k, is_endgame) ==
  IF k > Len(ps) THEN 0
  ELSE (IF ps[k][2] = White THEN piece_values(ps[k], is_endgame)
                            ELSE -piece_values(ps[k], is_endgame))
       + SumPieces(ps, k + 1, is_endgame)

PawnsOnFile(ps, colour, file) ==
  Cardinality({k \in DOMAIN ps :
                 ps[k][2] = colour /\ ps[k][3] = 0 /\ ps[k][1] % 8 = file})

\* A pawn term that charges only the pawns behind the first one of a
\* colour on a file.
RECURSIVE DoublePawnTerm_doubled(_, _)
DoublePawnTerm_doubled(ps, file) ==
  IF file > 7 THEN 0
  ELSE LET w == PawnsOnFile(ps, White, file)
           b == PawnsOnFile(ps, Black, file)
       IN  ((IF w > 1 THEN w - 1 ELSE 0) - (IF b > 1 THEN b - 1 ELSE 0)) * DOUBLE_PAWN_SANCTION
             + DoublePawnTerm_doubled(ps, file + 1)

RECURSIVE DoublePawnTerm(_, _)
DoublePawnTerm(ps, file) ==
  IF file > 7 THEN 0
  ELSE (PawnsOnFile(ps, White, file) - PawnsOnFile(ps, Black, file)) * DOUBLE_PAWN_SANCTION
       + DoublePawnTerm(ps, file + 1)

\* eval(board): the score of a placement from White's point of view.
eval(ps) ==
  LET is_endgame == Len(ps) < ENDGAME_PIECE_LIMIT
  IN  SumPieces(ps, 1, is_endgame) - DoublePawnTerm(ps, 0)

EvalOfPosition == [b \in Positions |-> eval(PosPieces[b])]

(* -------------------------- historyboard.rs -------------------------- *)

\* history: HashMap<u64, u8>; an absent key reads as 0.
U8_MODULUS == 256

THREEFOLD == 3

HistoryBoard_new(b) ==
  [board |-> b, history |-> [h \in Hashes |-> IF h = get_hash(b) THEN 1 ELSE 0]]

\* `+= 1` on a u8: a build with overflow checks panics at 255 + 1, a build
\* without them wraps to 0.
make_move_overflows(hb, m) ==
  hb.history[get_hash(make_move_new(hb.board, m))] + 1 >= U8_MODULUS

HistoryBoard_make_move(hb, m) ==
  LET new_board == make_move_new(hb.board, m)
  IN  [board |-> new_board,
       history |-> [hb.history EXCEPT ![get_hash(new_board)] = (@ + 1) % U8_MODULUS]]

\* A status() that asks for a fourth occurrence.
HistoryBoard_status_fourfold(hb) ==
  IF hb.history[get_hash(hb.board)] > THREEFOLD
    THEN "Stalemate"
    ELSE Board_status(hb.board)

HistoryBoard_status(hb) ==
  IF hb.history[get_hash(hb.board)] >= THREEFOLD
    THEN "Stalemate"
    ELSE Board_status(hb.board)

(* -------------------------- timecontrol.rs --------------------------- *)

\* A should_stop whose MoveTime test is strict.
should_stop_strict(tc, flag, elapsed, reached_depth) ==
  IF tc.has_flag /\ flag
    THEN TRUE
    ELSE CASE tc.mode = "MoveTime" -> elapsed > tc.n
           [] tc.mode = "Depth"    -> reached_depth >= tc.n
           [] tc.mode = "Infinite" -> FALSE

\* tc = [has_flag, mode, n]; flag is the value loaded from the shared
\* AtomicBool when there is one.
should_stop(tc, flag, elapsed, reached_depth) ==
  IF tc.has_flag /\ flag
    THEN TRUE
    ELSE CASE tc.mode = "MoveTime" -> elapsed >= tc.n
           [] tc.mode = "Depth"    -> reached_depth >= tc.n
           [] tc.mode = "Infinite" -> FALSE

(* ----------------------------- chooser.rs ---------------------------- *)

MATE_SCORE == 30000

INF == MATE_SCORE * 2

get_piece(m, b) == Unwrap(piece_on(b, m[1]))

get_capture(m, b) == piece_on(b, m[2])

get_capture_value(m, b) ==
  IF IsSome(get_capture(m, b)) THEN PIECE_VALUES[Unwrap(get_capture(m, b)) + 1] ELSE 0

get_relative_capture_value(m, b) ==
  get_capture_value(m, b) - PIECE_VALUES[get_piece(m, b) + 1]

\* An is_quiet that also holds for a capture of equal value.
is_quiet_equal(m, b) == get_relative_capture_value(m, b) <= 0

\* An is_quiet that lets the pawn's moves onto empty squares through.
is_quiet_pawn(m, b) == get_relative_capture_value(m, b) < -(PIECE_VALUES[1])

is_quiet(m, b) == get_relative_capture_value(m, b) < 0

get_move_prio(m, b) ==
  SQUARE_SCORES[side_to_move(b) + 1][get_piece(m, b) + 1][m[2] + 1]
    + get_capture_value(m, b)

\* Insertion into a list already in descending priority, behind every
\* element of at least the same priority (the sort is stable).
InsertByPrio(sorted, m, b) ==
  LET k == Cardinality({j \in DOMAIN sorted :
                          get_move_prio(sorted[j], b) >= get_move_prio(m, b)})
  IN  SubSeq(sorted, 1, k) \o <<m>> \o SubSeq(sorted, k + 1, Len(sorted))

RECURSIVE sort_moves(_, _)
sort_moves(moves, b) ==
  IF moves = <<>> THEN <<>>
  ELSE InsertByPrio(sort_moves(SubSeq(moves, 1, Len(moves) - 1), b), moves[Len(moves)], b)

\* The evaluator's score from the side to move's point of view.
side_eval(hb) ==
  IF side_to_move(hb.board) = White
    THEN EvalOfPosition[hb.board]
    ELSE -EvalOfPosition[hb.board]

\* A draw score without the bias.
draw_score_flat(hb) == -(MATE_SCORE \div 2)

\* The score of a drawn node (stalemate or threefold).
draw_score(hb) ==
  IF side_eval(hb) < -(PIECE_VALUES[3]) THEN MATE_SCORE \div 2 ELSE -(MATE_SCORE \div 2)

RECURSIVE qsearch(_, _, _), qsearch_loop(_, _, _, _, _)
qsearch(hb, alpha, beta) ==
  CASE HistoryBoard_status(hb) = "Checkmate" -> -MATE_SCORE
    [] HistoryBoard_status(hb) = "Stalemate" -> draw_score(hb)
    [] HistoryBoard_status(hb) = "Ongoing" ->
         LET stand_pat == side_eval(hb)
             NonQuiet(m) == ~is_quiet(m, hb.board)
         IN  IF stand_pat >= beta THEN beta
             ELSE qsearch_loop(hb,
                               sort_moves(SelectSeq(new_legal(hb.board), NonQuiet), hb.board),
                               1,
                               IF stand_pat > alpha THEN stand_pat ELSE alpha,
                               beta)

qsearch_loop(hb, moves, k, alpha, beta) ==
  IF k > Len(moves) THEN alpha
  ELSE LET value == -qsearch(HistoryBoard_make_move(hb, moves[k]), -beta, -alpha)
       IN  IF value >= beta THEN beta
           ELSE qsearch_loop(hb, moves, k + 1,
                             IF value > alpha THEN value ELSE alpha, beta)

(* negamax.  The stop predicate is monotone while a search runs (the flag *)
(* only goes to true, the clock only advances), so what the polls of one  *)
(* call tree return is fixed by the number of polls that still answer     *)
(* "go on": `budget`, or Unlimited when none of them fires.  The result   *)
(* is [value, response] as in the code, with the budget and node count    *)
(* handed on to the caller.                                               *)
Unlimited == 0 - 1

RECURSIVE negamax(_, _, _, _, _, _), negamax_loop(_, _, _, _, _, _, _, _, _)
negamax(hb, depth, alpha, beta, budget, node_count) ==
  IF depth = 0
    THEN [value |-> Some(qsearch(hb, alpha, beta)), response |-> None,
          budget |-> budget, node_count |-> node_count + 1]
  ELSE IF budget = 0
    THEN [value |-> None, response |-> None,
          budget |-> budget, node_count |-> node_count]
  ELSE LET left == IF budget = Unlimited THEN Unlimited ELSE budget - 1
       IN  CASE HistoryBoard_status(hb) = "Checkmate" ->
                  [value |-> Some(-MATE_SCORE), response |-> None,
                   budget |-> left, node_count |-> node_count]
             [] HistoryBoard_status(hb) = "Stalemate" ->
                  [value |-> Some(draw_score(hb)), response |-> None,
                   budget |-> left, node_count |-> node_count]
             [] HistoryBoard_status(hb) = "Ongoing" ->
                  negamax_loop(hb, depth,
                               IF depth # 1 THEN sort_moves(new_legal(hb.board), hb.board)
                                            ELSE new_legal(hb.board),
                               1, alpha, beta, None, left, node_count)

\* A loop whose cutoff hands back the value found instead of beta.
negamax_loop_soft(hb, depth, moves, k, alpha, beta, response, budget, node_count) ==
  IF k > Len(moves)
    THEN [value |-> Some(alpha), response |-> response,
          budget |-> budget, node_count |-> node_count]
  ELSE LET r == negamax(HistoryBoard_make_move(hb, moves[k]), depth - 1,
                        -beta, -alpha, budget, node_count)
       IN  IF ~IsSome(r.value)
             THEN [value |-> None, response |-> None,
                   budget |-> r.budget, node_count |-> r.node_count]
           ELSE IF -Unwrap(r.value) >= beta
             THEN [value |-> Some(-Unwrap(r.value)), response |-> None,
                   budget |-> r.budget, node_count |-> r.node_count]
           ELSE IF -Unwrap(r.value) > alpha
             THEN negamax_loop(hb, depth, moves, k + 1, -Unwrap(r.value), beta,
                               Some(moves[k]), r.budget, r.node_count)
           ELSE negamax_loop(hb, depth, moves, k + 1, alpha, beta,
                             response, r.budget, r.node_count)

\* A loop that goes on to the next sibling when a child was aborted.
negamax_loop_skip(hb, depth, moves, k, alpha, beta, response, budget, node_count) ==
  IF k > Len(moves)
    THEN [value |-> Some(alpha), response |-> response,
          budget |-> budget, node_count |-> node_count]
  ELSE LET r == negamax(HistoryBoard_make_move(hb, moves[k]), depth - 1,
                        -beta, -alpha, budget, node_count)
       IN  IF ~IsSome(r.value)
             THEN negamax_loop(hb, depth, moves, k + 1, alpha, beta,
                               response, r.budget, r.node_count)
           ELSE IF -Unwrap(r.value) >= beta
             THEN [value |-> Some(beta), response |-> None,
                   budget |-> r.budget, node_count |-> r.node_count]
           ELSE IF -Unwrap(r.value) > alpha
             THEN negamax_loop(hb, depth, moves, k + 1, -Unwrap(r.value), beta,
                               Some(moves[k]), r.budget, r.node_count)
           ELSE negamax_loop(hb, depth, moves, k + 1, alpha, beta,
                             response, r.budget, r.node_count)

negamax_loop(hb, depth, moves, k, alpha, beta, response, budget, node_count) ==
  IF k > Len(moves)
    THEN [value |-> Some(alpha), response |-> response,
          budget |-> budget, node_count |-> node_count]
  ELSE LET r == negamax(HistoryBoard_make_move(hb, moves[k]), depth - 1,
                        -beta, -alpha, budget, node_count)
       IN  IF ~IsSome(r.value)
             THEN [value |-> None, response |-> None,
                   budget |-> r.budget, node_count |-> r.node_count]
           ELSE IF -Unwrap(r.value) >= beta
             THEN [value |-> Some(beta), response |-> None,
                   budget |-> r.budget, node_count |-> r.node_count]
           ELSE IF -Unwrap(r.value) > alpha
             THEN negamax_loop(hb, depth, moves, k + 1, -Unwrap(r.value), beta,
                               Some(moves[k]), r.budget, r.node_count)
           ELSE negamax_loop(hb, depth, moves, k + 1, alpha, beta,
                             response, r.budget, r.node_count)

\* ChooserResult::new
ChooserResult(m, resp, deep_eval, reached_depth, millis) ==
  [best_move |-> m, response |-> resp, deep_eval |-> deep_eval,
   reached_depth |-> reached_depth, millis |-> millis]

\* The best move copied to the front, the move that stood there lost.
swap_to_front_copy(cands, idx) ==
  IF cands = <<>> THEN cands
  ELSE [k \in DOMAIN cands |-> IF k = 1 THEN cands[idx + 1] ELSE cands[k]]

\* candidates.swap(0, curr_best_move_index)            (chessian/src/chooser.rs)
swap_to_front(cands, idx) ==
  IF cands = <<>> THEN cands
  ELSE [k \in DOMAIN cands |->
          IF k = 1 THEN cands[idx + 1]
          ELSE IF k = idx + 1 THEN cands[1]
          ELSE cands[k]]

\* candidates.remove(curr_best_move_index); candidates.insert(0, m)
\*                                                     (src/chooser.rs)
move_to_front(cands, idx) ==
  <<cands[idx + 1]>> \o SubSeq(cands, 1, idx) \o SubSeq(cands, idx + 2, Len(cands))

\* A commit rule with the move comparison turned round.
commits_partial_never(a, best_a, best_m, curr_m) == a > best_a /\ best_m = curr_m

\* A commit rule that does not compare the moves.
commits_partial_any_move(a, best_a, best_m, curr_m) == a > best_a

\* `alpha > best_alpha && best_move != curr_best_move`: the in-progress depth
\* is committed when the search is aborted.
commits_partial(a, best_a, best_m, curr_m) == a > best_a /\ best_m # curr_m

\* A mate test that misses the score MATE_SCORE itself.
mate_found_strict(a) == a > MATE_SCORE

\* `alpha >= MATE_SCORE`
mate_found(a) == a >= MATE_SCORE

\* A lost-position test that misses the scores below -MATE_SCORE.
we_lose_exact(a) == a = -MATE_SCORE

\* `alpha <= -MATE_SCORE`
we_lose(a) == a <= -MATE_SCORE

\* `num_candidates == 1` of src/chooser.rs; chessian/src/chooser.rs has no
\* such return.
single_move_return(v, cands) == v = "app" /\ Len(cands) = 1

(* ------------------ the search in another move order ----------------- *)

\* The k-th rearrangement of a move list: a rotation, then a reversal for
\* every other k.  For lists of up to three moves k = 0..5 gives all of them.
Permute(moves, k) ==
  LET n == Len(moves)
  IN  IF n < 2 THEN moves
      ELSE LET rot == [j \in 1..n |-> moves[((j - 1 + k) % n) + 1]]
           IN  IF (k \div n) % 2 = 1 THEN [j \in 1..n |-> rot[n + 1 - j]] ELSE rot

\* A policy rearranges the list of a node at remaining depth d by its
\* order number k, moved on by s for every level.
Policies == [k : 0..5, s : {0, 1}]

OrderAt(policy, depth) == (policy.k + policy.s * depth) % 6

\* qsearch with the list of captures rearranged.
RECURSIVE qsearch_ordered(_, _, _, _), qsearch_ordered_loop(_, _, _, _, _, _)
qsearch_ordered(hb, alpha, beta, policy) ==
  CASE HistoryBoard_status(hb) = "Checkmate" -> -MATE_SCORE
    [] HistoryBoard_status(hb) = "Stalemate" -> draw_score(hb)
    [] HistoryBoard_status(hb) = "Ongoing" ->
         LET stand_pat == side_eval(hb)
             NonQuiet(m) == ~is_quiet(m, hb.board)
         IN  IF stand_pat >= beta THEN beta
             ELSE qsearch_ordered_loop(
                    hb,
                    Permute(sort_moves(SelectSeq(new_legal(hb.board), NonQuiet), hb.board),
                            OrderAt(policy, 0)),
                    1, IF stand_pat > alpha THEN stand_pat ELSE alpha, beta, policy)

qsearch_ordered_loop(hb, moves, k, alpha, beta, policy) ==
  IF k > Len(moves) THEN alpha
  ELSE LET value == -qsearch_ordered(HistoryBoard_make_move(hb, moves[k]),
                                     -beta, -alpha, policy)
       IN  IF value >= beta THEN beta
           ELSE qsearch_ordered_loop(hb, moves, k + 1,
                                     IF value > alpha THEN value ELSE alpha, beta, policy)

\* negamax with every node's move list rearranged and a stop predicate that
\* never fires: the value it returns.
RECURSIVE negamax_ordered(_, _, _, _, _), negamax_ordered_loop(_, _, _, _, _, _, _)
negamax_ordered(hb, depth, alpha, beta, policy) ==
  IF depth = 0 THEN qsearch_ordered(hb, alpha, beta, policy)
  ELSE CASE HistoryBoard_status(hb) = "Checkmate" -> -MATE_SCORE
         [] HistoryBoard_status(hb) = "Stalemate" -> draw_score(hb)
         [] HistoryBoard_status(hb) = "Ongoing" ->
              negamax_ordered_loop(
                hb, depth,
                Permute(IF depth # 1 THEN sort_moves(new_legal(hb.board), hb.board)
                                     ELSE new_legal(hb.board),
                        OrderAt(policy, depth)),
                1, alpha, beta, policy)

negamax_ordered_loop(hb, depth, moves, k, alpha, beta, policy) ==
  IF k > Len(moves) THEN alpha
  ELSE LET value == -negamax_ordered(HistoryBoard_make_move(hb, moves[k]), depth - 1,
                                     -beta, -alpha, policy)
       IN  IF value >= beta THEN beta
           ELSE negamax_ordered_loop(hb, depth, moves, k + 1,
                                     IF value > alpha THEN value ELSE alpha, beta, policy)

\* The for loop of best_move over rearranged candidates, without aborts: the
\* alpha it ends with, at the mate cutoff or after the last candidate.
RECURSIVE root_alpha(_, _, _, _, _, _)
root_alpha(hb, depth, moves, k, alpha, policy) ==
  IF k > Len(moves) THEN alpha
  ELSE LET current_move_alpha ==
             -negamax_ordered(HistoryBoard_make_move(hb, moves[k]), depth,
                              -INF, -alpha, policy)
           new_alpha == IF current_move_alpha > alpha THEN current_move_alpha ELSE alpha
       IN  IF mate_found(new_alpha) THEN new_alpha
           ELSE root_alpha(hb, depth, moves, k + 1, new_alpha, policy)

(* ------------------------------ bounds ------------------------------- *)

\* Moves played on the board before a search is started.
MaxPlies == 7

\* Deepest root depth the search is followed to; also the largest Depth(D).
MaxDepth == 2

\* Clock values 0..MaxElapsed (milliseconds since t0); also the MoveTime limits.
MaxElapsed == 1

\* Largest finite number of polls that pass before the stop predicate fires.
MaxBudget == 2

Budgets == {Unlimited} \cup (0..MaxBudget)

TimeControls ==
  {[has_flag |-> f, mode |-> "MoveTime", n |-> l] : f \in BOOLEAN, l \in 0..MaxElapsed}
    \cup {[has_flag |-> f, mode |-> "Depth", n |-> d] : f \in BOOLEAN, d \in 0..MaxDepth}
    \cup {[has_flag |-> f, mode |-> "Infinite", n |-> 0] : f \in BOOLEAN}

\* Positions a game is set up from (GameState::from_fen).
StartPositions == {1, 8, 15, 20}

\* exclude_moves of src/chooser.rs: nothing, or one of the legal moves.
ExcludeChoices(b) == {{}} \cup {{m} : m \in Range(new_legal(b))}

(* ------------------------------- state ------------------------------- *)

VARIABLES
  hb,                   \* the game's HistoryBoard (GameState.board)
  occurrences,          \* per hash, how often it occurred on the path played
  plies,                \* moves played so far
  overflow_panic,       \* the u8 increment panicked
  variant,              \* "core": chessian/src/chooser.rs, "app": src/chooser.rs
  tc,                   \* the TimeControl handed to best_move
  exclude_moves,
  stop_flag,            \* the shared AtomicBool
  elapsed,              \* t0.elapsed()
  pc,                   \* "idle", "loop", "done", "panic", "cut"
  candidates,
  current_depth,
  i,                    \* 1-based position of the for loop in candidates
  node_count,
  alpha,
  curr_best_move,
  curr_response,
  curr_best_move_index,
  best_move,
  best_alpha,
  response,
  result,               \* what best_move returned: None or Some(ChooserResult)
  uci_sink,             \* the info lines written
  negamax_calls,        \* calls of negamax made by the root driver
  aborts,               \* of these, how many returned the abort sentinel
  exit,                 \* how best_move left: "single", "abort", "mate", "lose", "stop"
  probe                 \* a part studied alone: a function's call, the GUI's threads

gameVars == <<hb, occurrences, plies, overflow_panic>>
inputVars == <<variant, tc, exclude_moves>>
clockVars == <<stop_flag, elapsed>>
localVars == <<candidates, current_depth, i, node_count, alpha, curr_best_move,
               curr_response, curr_best_move_index, best_move, best_alpha, response>>
outVars == <<result, uci_sink, negamax_calls, aborts, exit>>
searchVars == <<inputVars, clockVars, pc, localVars, outVars>>
vars == <<gameVars, searchVars, probe>>

NoProbe ==
  [tc |-> [has_flag |-> FALSE, mode |-> "Infinite", n |-> 0], flag |-> FALSE,
   elapsed |-> 0, reached_depth |-> 0, called |-> FALSE, out |-> FALSE]

SearchIdle ==
  /\ variant = "core"
  /\ tc = [has_flag |-> FALSE, mode |-> "Infinite", n |-> 0]
  /\ exclude_moves = {}
  /\ stop_flag = FALSE
  /\ elapsed = 0
  /\ pc = "idle"
  /\ candidates = <<>>
  /\ current_depth = 1
  /\ i = 1
  /\ node_count = 0
  /\ alpha = -INF
  /\ curr_best_move = None
  /\ curr_response = None
  /\ curr_best_move_index = 0
  /\ best_move = None
  /\ best_alpha = -INF
  /\ response = None
  /\ result = None
  /\ uci_sink = <<>>
  /\ negamax_calls = 0
  /\ aborts = 0
  /\ exit = "none"

GameInit(starts) ==
  /\ \E b \in starts :
       /\ hb = HistoryBoard_new(b)
       /\ occurrences = [h \in Hashes |-> IF h = get_hash(b) THEN 1 ELSE 0]
  /\ plies = 0
  /\ overflow_panic = FALSE

Init ==
  /\ GameInit(StartPositions)
  /\ SearchIdle
  /\ probe = NoProbe

(* ------------------------------ the game ----------------------------- *)

\* GameState::make_move on the current board: HistoryBoard::make_move.
GameMakeMove(m) ==
  /\ pc = "idle"
  /\ ~overflow_panic
  /\ m \in Range(new_legal(hb.board))
  /\ \E panics \in IF make_move_overflows(hb, m) THEN BOOLEAN ELSE {FALSE} :
       IF panics
         THEN /\ overflow_panic' = TRUE
              /\ UNCHANGED <<hb, occurrences, plies>>
         ELSE /\ overflow_panic' = FALSE
              /\ hb' = HistoryBoard_make_move(hb, m)
              /\ occurrences' =
                   [occurrences EXCEPT ![get_hash(make_move_new(hb.board, m))] = @ + 1]
              /\ plies' = plies + 1
  /\ UNCHANGED <<searchVars, probe>>

MakeMove ==
  \E m \in Range(new_legal(hb.board)) :
    /\ plies < MaxPlies
    /\ GameMakeMove(m)

(* ----------------------------- best_move ----------------------------- *)

\* The legal moves collected unfiltered.
filter_excluded_none(moves, ex) == moves

\* .filter(|m| !exclude_moves.contains(m)) of src/chooser.rs
filter_excluded(moves, ex) ==
  LET Kept(m) == m \notin ex IN SelectSeq(moves, Kept)

\* The value best_move returns once its loop is left.
Returned(bm, resp, balpha, depth, millis) ==
  IF IsSome(bm)
    THEN Some(ChooserResult(Unwrap(bm), resp, balpha, depth - 1, millis))
    ELSE None

\* Lines 28-36 (core), 42-56 (app): the candidates, the single-move return
\* of src/chooser.rs, the first pass of the outer loop.
BestMoveEnter(v, t, ex) ==
  /\ pc = "idle"
  /\ ~overflow_panic
  /\ variant' = v
  /\ tc' = t
  /\ exclude_moves' = ex
  /\ UNCHANGED <<clockVars, gameVars, probe>>
  /\ UNCHANGED <<current_depth, i, node_count, alpha, curr_best_move, curr_response,
                 curr_best_move_index, best_move, best_alpha, response>>
  /\ UNCHANGED <<uci_sink, negamax_calls, aborts>>
  /\ LET legal == IF v = "app" THEN filter_excluded(new_legal(hb.board), ex)
                               ELSE new_legal(hb.board)
     IN  IF single_move_return(v, legal)
           THEN /\ candidates' = legal
                /\ result' = Some(ChooserResult(legal[1], None, -1, 0, 0))
                /\ exit' = "single"
                /\ pc' = "done"
           ELSE /\ candidates' = sort_moves(legal, hb.board)
                /\ result' = None
                /\ exit' = "none"
                /\ pc' = "loop"

Enter ==
  \/ \E t \in TimeControls : BestMoveEnter("core", t, {})
  \/ \E t \in TimeControls, ex \in ExcludeChoices(hb.board) : BestMoveEnter("app", t, ex)

\* One pass of the for loop: lines 43-75.
RootMove ==
  /\ pc = "loop"
  /\ i <= Len(candidates)
  /\ \E budget \in Budgets, f2 \in BOOLEAN, e2 \in elapsed..MaxElapsed :
       LET m == candidates[i]
           r == negamax(HistoryBoard_make_move(hb, m), current_depth, -INF, -alpha,
                        budget, node_count)
       IN  /\ (budget = 0) <=> should_stop(tc, stop_flag, elapsed, 0)
           /\ negamax_calls' = negamax_calls + 1
           /\ node_count' = r.node_count
           /\ stop_flag' = f2
           /\ elapsed' = e2
           /\ UNCHANGED <<gameVars, inputVars, probe, candidates, current_depth, uci_sink>>
           /\ IF ~IsSome(r.value)
                THEN \* out of time: lines 54-62
                     /\ budget = 0 => (f2 = stop_flag /\ e2 = elapsed)
                     /\ budget # 0 => /\ f2 = stop_flag \/ (f2 /\ tc.has_flag)
                                      /\ should_stop(tc, f2, e2, 0)
                     /\ aborts' = aborts + 1
                     /\ UNCHANGED <<i, alpha, curr_best_move, curr_response, curr_best_move_index>>
                     /\ IF commits_partial(alpha, best_alpha, best_move, curr_best_move)
                          THEN /\ best_move' = curr_best_move
                               /\ response' = r.response
                               /\ best_alpha' = alpha
                          ELSE UNCHANGED <<best_move, response, best_alpha>>
                     /\ result' = Returned(best_move', response', best_alpha', current_depth, e2)
                     /\ exit' = "abort"
                     /\ pc' = "done"
                ELSE LET current_move_alpha == -Unwrap(r.value)
                         better == current_move_alpha > alpha
                         new_alpha == IF better THEN current_move_alpha ELSE alpha
                     IN  /\ budget = Unlimited
                         /\ f2 = stop_flag
                         /\ aborts' = aborts
                         /\ alpha' = new_alpha
                         /\ curr_best_move' = IF better THEN Some(m) ELSE curr_best_move
                         /\ curr_response' = IF better THEN r.response ELSE curr_response
                         /\ curr_best_move_index' = IF better THEN i - 1 ELSE curr_best_move_index
                         /\ IF mate_found(new_alpha)
                              THEN \* mate found: lines 69-75
                                   /\ best_move' = curr_best_move'
                                   /\ response' = r.response
                                   /\ best_alpha' = new_alpha
                                   /\ i' = i
                                   /\ result' = Returned(best_move', response', best_alpha',
                                                         current_depth, e2)
                                   /\ exit' = "mate"
                                   /\ pc' = "done"
                              ELSE /\ UNCHANGED <<best_move, response, best_alpha, result, exit>>
                                   /\ i' = i + 1
                                   /\ pc' = "loop"

\* After the for loop: lines 77-96.
DepthEnd ==
  /\ pc = "loop"
  /\ i > Len(candidates)
  /\ \E e2 \in elapsed..MaxElapsed :
       /\ elapsed' = e2
       /\ UNCHANGED <<gameVars, inputVars, probe, stop_flag, negamax_calls, aborts>>
       /\ IF we_lose(alpha)
            THEN \* we lose: lines 77-80
                 /\ UNCHANGED <<localVars, uci_sink>>
                 /\ result' = Returned(best_move, response, best_alpha, current_depth, e2)
                 /\ exit' = "lose"
                 /\ pc' = "done"
          ELSE IF ~IsSome(curr_best_move) \/ ~IsSome(curr_response)
            THEN \* unwrap() of None in the info line
                 /\ UNCHANGED <<localVars, uci_sink, result, exit>>
                 /\ pc' = "panic"
          ELSE /\ uci_sink' = Append(uci_sink,
                                     [seldepth |-> current_depth, score |-> alpha,
                                      nodes |-> node_count, time |-> e2,
                                      pv |-> <<Unwrap(curr_best_move), Unwrap(curr_response)>>])
               /\ current_depth' = current_depth + 1
               /\ candidates' = IF variant = "core"
                                  THEN swap_to_front(candidates, curr_best_move_index)
                                  ELSE move_to_front(candidates, curr_best_move_index)
               /\ best_move' = curr_best_move
               /\ response' = curr_response
               /\ best_alpha' = alpha
               /\ IF should_stop(tc, stop_flag, e2, current_depth' - 1)
                    THEN /\ UNCHANGED <<i, node_count, alpha, curr_best_move, curr_response,
                                        curr_best_move_index>>
                         /\ result' = Returned(best_move', response', best_alpha',
                                               current_depth', e2)
                         /\ exit' = "stop"
                         /\ pc' = "done"
                    ELSE \* next pass of the outer loop: lines 38-42
                         /\ node_count' = 0
                         /\ alpha' = -INF
                         /\ curr_best_move' = None
                         /\ curr_response' = None
                         /\ curr_best_move_index' = 0
                         /\ i' = 1
                         /\ result' = None
                         /\ exit' = "none"
                         /\ pc' = IF current_depth' > MaxDepth THEN "cut" ELSE "loop"

\* The host stores true into the flag it shares with the search.
StoreFlag ==
  /\ pc = "loop"
  /\ tc.has_flag
  /\ ~stop_flag
  /\ stop_flag' = TRUE
  /\ UNCHANGED <<gameVars, inputVars, elapsed, pc, localVars, outVars, probe>>

Next ==
  \/ MakeMove
  \/ Enter
  \/ RootMove
  \/ DepthEnd
  \/ StoreFlag

Spec == Init /\ [][Next]_vars

(* --------------- a search of a position just set up ------------------ *)

\* Positions handed over as a FEN and searched at once (`<fen> go`).
SearchStarts == {20, 40}

InitSearch ==
  /\ GameInit(SearchStarts)
  /\ SearchIdle
  /\ probe = NoProbe

NextSearch ==
  \/ Enter
  \/ RootMove
  \/ DepthEnd
  \/ StoreFlag

SpecSearch == InitSearch /\ [][NextSearch]_vars

(* ------------- HistoryBoard alone: a game played at length ------------ *)

\* Positions whose games stay on one line of play, so that a position can
\* be repeated up to the width of its counter.
HistoryStarts == {1, 8, 15}

InitHistory ==
  /\ GameInit(HistoryStarts)
  /\ SearchIdle
  /\ probe = NoProbe

\* The game goes on until some counter has been through its whole range.
HistoryMakeMove ==
  \E m \in Range(new_legal(hb.board)) :
    /\ \A h \in Hashes : occurrences[h] < U8_MODULUS
    /\ GameMakeMove(m)

SpecHistory == InitHistory /\ [][HistoryMakeMove]_vars

(* ------------------ TimeControl::should_stop alone ------------------- *)

InitTimeControl ==
  /\ GameInit({1})
  /\ SearchIdle
  /\ \E t \in TimeControls : probe = [NoProbe EXCEPT !.tc = t]

\* A caller asks should_stop with some clock value and depth.
ProbeShouldStop ==
  /\ \E e \in 0..(MaxElapsed + 1), d \in 0..(MaxDepth + 1) :
       probe' = [probe EXCEPT !.elapsed = e, !.reached_depth = d, !.called = TRUE,
                              !.out = should_stop(probe.tc, probe.flag, e, d)]
  /\ UNCHANGED <<gameVars, searchVars>>

\* The holder of the flag stores true.
ProbeStoreFlag ==
  /\ probe.tc.has_flag
  /\ ~probe.flag
  /\ probe' = [probe EXCEPT !.flag = TRUE, !.called = FALSE, !.out = FALSE]
  /\ UNCHANGED <<gameVars, searchVars>>

NextTimeControl == ProbeShouldStop \/ ProbeStoreFlag

SpecTimeControl == InitTimeControl /\ [][NextTimeControl]_vars

(* ------------------------------ eval alone --------------------------- *)

\* Most pieces put on the board beside a base placement.
MaxExtras == 2

\* The kings alone: fewer than 20 pieces, the endgame tables apply.
EndgameBase == {<<4, White, 5>>, <<60, Black, 5>>}

\* The initial position of chess: 32 pieces, the midgame tables apply.
MidgameBase ==
  LET back == <<3, 1, 2, 4, 5, 2, 1, 3>>
  IN  {<<f, White, back[f + 1]>> : f \in 0..7}
        \cup {<<8 + f, White, 0>> : f \in 0..7}
        \cup {<<48 + f, Black, 0>> : f \in 0..7}
        \cup {<<56 + f, Black, back[f + 1]>> : f \in 0..7}

\* Squares a3, b3, b4, b5, b6, free in both bases.
ExtraSquares == {16, 17, 25, 33, 41}

ExtraPieces == {<<sq, c, p>> : sq \in ExtraSquares, c \in {White, Black}, p \in 0..4}

RECURSIVE ExtraSets(_)
ExtraSets(n) ==
  IF n = 0 THEN {{}}
  ELSE LET smaller == ExtraSets(n - 1)
       IN  smaller \cup
             {E \cup {t} : <<E, t>> \in
                {x \in smaller \X ExtraPieces : \A u \in x[1] : u[1] # x[2][1]}}

\* The occupied squares in ascending order, as the bitboards are walked.
RECURSIVE SeqOfPieces(_)
SeqOfPieces(S) ==
  IF S = {} THEN <<>>
  ELSE LET t == CHOOSE t \in S : \A u \in S : t[1] <= u[1]
       IN  <<t>> \o SeqOfPieces(S \ {t})

EvalPlacements ==
  {SeqOfPieces(base \cup E) : base \in {EndgameBase, MidgameBase}, E \in ExtraSets(MaxExtras)}

InitEval ==
  /\ GameInit({1})
  /\ SearchIdle
  /\ \E ps \in EvalPlacements :
       probe = [placement |-> ps, called |-> FALSE, score |-> 0, mirror_score |-> 0,
                piece_sum |-> 0]

\* The square with the rank turned over: s XOR 56.
Flip(s) == (7 - (s \div 8)) * 8 + (s % 8)

\* The placement with the colours swapped and the board turned over.
Mirror(ps) == SeqOfPieces({<<Flip(t[1]), 1 - t[2], t[3]>> : t \in Range(ps)})

\* eval is called on the placement and on its mirror image.
ProbeEval ==
  /\ ~probe.called
  /\ probe' = [probe EXCEPT
                 !.called = TRUE,
                 !.score = eval(probe.placement),
                 !.mirror_score = eval(Mirror(probe.placement)),
                 !.piece_sum = SumPieces(probe.placement, 1,
                                         Len(probe.placement) < ENDGAME_PIECE_LIMIT)]
  /\ UNCHANGED <<gameVars, searchVars>>

SpecEval == InitEval /\ [][ProbeEval]_vars

(* ------------------------- the square tables ------------------------- *)

InitTables ==
  /\ GameInit({1})
  /\ SearchIdle
  /\ \E p \in 0..5, sq \in 0..63 :
       probe = [piece |-> p, square |-> sq, called |-> FALSE,
                black |-> <<0, 0, 0>>, white |-> <<0, 0, 0>>]

\* The three tables are read for Black at the square and for White at the
\* square of the mirrored rank, as eval indexes them.
ProbeTables ==
  /\ ~probe.called
  /\ probe' = [probe EXCEPT
                 !.called = TRUE,
                 !.black = <<SQUARE_SCORES[Black + 1][probe.piece + 1][probe.square + 1],
                             ENDGAME_PAWN_SCORES[Black + 1][probe.square + 1],
                             ENDGAME_KING_SCORES[Black + 1][probe.square + 1]>>,
                 !.white = <<SQUARE_SCORES[White + 1][probe.piece + 1][Flip(probe.square) + 1],
                             ENDGAME_PAWN_SCORES[White + 1][Flip(probe.square) + 1],
                             ENDGAME_KING_SCORES[White + 1][Flip(probe.square) + 1]>>]
  /\ UNCHANGED <<gameVars, searchVars>>

SpecTables == InitTables /\ [][ProbeTables]_vars

(* --------------------- negamax and the move order -------------------- *)

\* The windows a call is tried with.
WindowEdges == {-INF, -MATE_SCORE, -500, 0, 500, MATE_SCORE, INF}

OngoingPositions == {b \in Positions : Board_status(b) = "Ongoing"}

InitOrdering ==
  /\ \E b \in OngoingPositions :
       /\ hb = HistoryBoard_new(b)
       /\ occurrences = [h \in Hashes |-> IF h = get_hash(b) THEN 1 ELSE 0]
  /\ plies = 0
  /\ overflow_panic = FALSE
  /\ SearchIdle
  /\ \E d \in 1..(MaxDepth + 1), a \in WindowEdges, b \in WindowEdges, pol \in Policies :
       /\ a < b
       /\ probe = [depth |-> d, alpha |-> a, beta |-> b, policy |-> pol, called |-> FALSE,
                   value |-> 0, ordered_value |-> 0, root_alpha |-> 0]

\* negamax is called on the position in the code's move order and in the
\* rearranged one, and the root loop is run over the rearranged candidates.
ProbeOrdering ==
  /\ ~probe.called
  /\ probe' = [probe EXCEPT
       !.called = TRUE,
       !.value = Unwrap(negamax(hb, probe.depth, probe.alpha, probe.beta, Unlimited, 0).value),
       !.ordered_value = negamax_ordered(hb, probe.depth, probe.alpha, probe.beta, probe.policy),
       !.root_alpha = root_alpha(hb, probe.depth,
                                 Permute(sort_moves(new_legal(hb.board), hb.board),
                                         OrderAt(probe.policy, probe.depth + 1)),
                                 1, -INF, probe.policy)]
  /\ UNCHANGED <<gameVars, searchVars>>

SpecOrdering == InitOrdering /\ [][ProbeOrdering]_vars

(* ------------------- one node of the search alone -------------------- *)

\* Window edges of the nodes: those above and the value of a pawn.
NodeEdges == WindowEdges \cup {PIECE_VALUES[1]}

\* Number of pieces on a board.
PieceCount(b) == Len(PosPieces[b])

\* What one call of qsearch does at its own level and below: the moves its
\* loop recurses into, in order, how deep the recursion goes, and whether
\* every recursive call was made on a board with one piece fewer.
RECURSIVE qsearch_trace(_, _, _), qsearch_trace_loop(_, _, _, _, _)
qsearch_trace(node, lo, hi) ==
  IF HistoryBoard_status(node) # "Ongoing" \/ side_eval(node) >= hi
    THEN [explored |-> <<>>, depth |-> 0, shrinks |-> TRUE]
    ELSE LET NonQuiet(m) == ~is_quiet(m, node.board)
         IN  qsearch_trace_loop(node,
                                sort_moves(SelectSeq(new_legal(node.board), NonQuiet),
                                           node.board),
                                1,
                                IF side_eval(node) > lo THEN side_eval(node) ELSE lo,
                                hi)

qsearch_trace_loop(node, moves, k, lo, hi) ==
  IF k > Len(moves)
    THEN [explored |-> <<>>, depth |-> 0, shrinks |-> TRUE]
  ELSE LET child == HistoryBoard_make_move(node, moves[k])
           value == -qsearch(child, -hi, -lo)
           below == qsearch_trace(child, -hi, -lo)
           rest  == IF value >= hi
                      THEN [explored |-> <<>>, depth |-> 0, shrinks |-> TRUE]
                      ELSE qsearch_trace_loop(node, moves, k + 1,
                                              IF value > lo THEN value ELSE lo, hi)
       IN  [explored |-> <<moves[k]>> \o rest.explored,
            depth |-> IF 1 + below.depth > rest.depth THEN 1 + below.depth ELSE rest.depth,
            shrinks |-> /\ PieceCount(child.board) = PieceCount(node.board) - 1
                        /\ below.shrinks
                        /\ rest.shrinks]

\* The node: any position, seen for the first, second or third time.
InitNodes ==
  /\ \E b \in Positions, c \in 1..THREEFOLD :
       /\ hb = [board |-> b,
                history |-> [h \in Hashes |-> IF h = get_hash(b) THEN c ELSE 0]]
       /\ occurrences = [h \in Hashes |-> IF h = get_hash(b) THEN c ELSE 0]
  /\ plies = 0
  /\ overflow_panic = FALSE
  /\ SearchIdle
  /\ \E d \in 1..MaxDepth, a \in NodeEdges, b \in NodeEdges :
       /\ a < b
       /\ probe = [depth |-> d, alpha |-> a, beta |-> b, called |-> FALSE,
                   negamax_value |-> None, qsearch_value |-> 0,
                   leaf |-> [value |-> None, budget |-> 0],
                   trace |-> [explored |-> <<>>, depth |-> 0, shrinks |-> TRUE]]

\* negamax (depth >= 1, no poll firing) and qsearch are called on the node;
\* negamax is also called on it as a depth-0 node with no poll left.
ProbeNodes ==
  /\ ~probe.called
  /\ LET leaf == negamax(hb, 0, probe.alpha, probe.beta, 0, 0)
     IN  probe' = [probe EXCEPT
           !.called = TRUE,
           !.negamax_value = negamax(hb, probe.depth, probe.alpha, probe.beta,
                                     Unlimited, 0).value,
           !.qsearch_value = qsearch(hb, probe.alpha, probe.beta),
           !.leaf = [value |-> leaf.value, budget |-> leaf.budget],
           !.trace = qsearch_trace(hb, probe.alpha, probe.beta)]
  /\ UNCHANGED <<gameVars, searchVars>>

SpecNodes == InitNodes /\ [][ProbeNodes]_vars

(* ---------------- the GUI and its background eval workers ------------- *)

\* Threads the GUI spawns in one session.
MaxWorkers == 3

\* The boards of the session are 0 (GameState::default()) .. MaxBoard.
MaxBoard == 1

Boards == 0..MaxBoard

\* mpsc::channel(): nothing queued, the sender alive, nothing received yet.
new_channel == [queue |-> <<>>, sender |-> TRUE, taken |-> "none"]

\* spawn_eval_thread: a channel, a thread owning its sender, the flag handed
\* over and a clone of the board; the receiver becomes eval_handle.
spawn_eval_thread(g, flag_index) ==
  [g EXCEPT !.workers = Append(@, [at |-> "spawned", flag |-> flag_index,
                                   board |-> g.board, eval |-> "none"]),
            !.channels = Append(@, new_channel),
            !.eval_handle = Len(g.channels) + 1]

\* rec.try_recv() in place of rec.recv(): returns at once.
recv_ready_unblocked(channel) == TRUE

\* Receiver::recv returns once a message is queued or the sender is gone.
recv_ready(channel) == channel.queue # <<>> \/ ~channel.sender

\* The old flag object stored false again in place of a new object.
new_flag_reset(flags) == [flags EXCEPT ![Len(flags)] = FALSE]

\* *stop_flag = Arc::new(AtomicBool::new(false))
new_flag(flags) == Append(flags, FALSE)

\* Nothing taken from the result channel by try_recv yet.
NothingConsumed == [some |-> FALSE, eval |-> FALSE, for |-> 0, at |-> 0]

\* main, lines 95-100: the first worker.
InitGui ==
  /\ GameInit({1})
  /\ SearchIdle
  /\ probe = spawn_eval_thread(
               [flags |-> <<FALSE>>, workers |-> <<>>, channels |-> <<>>,
                eval_stop_flag |-> 1, eval_handle |-> 0, eval |-> TRUE,
                gui |-> "frame", board |-> 0, engine_move_next_frame |-> FALSE,
                consumed |-> NothingConsumed], 1)

\* The spawned thread starts to run its closure: best_move is entered.
WorkerBegin(k) ==
  /\ probe.workers[k].at = "spawned"
  /\ probe' = [probe EXCEPT !.workers[k].at = "best_move"]
  /\ UNCHANGED <<gameVars, searchVars>>

\* best_move returns Some(result) or None: the depth done, the search
\* cancelled, or no move to choose from.
WorkerReturn(k) ==
  /\ probe.workers[k].at = "best_move"
  /\ \E e \in {"Some", "None"} :
       probe' = [probe EXCEPT !.workers[k].at = "send", !.workers[k].eval = e]
  /\ UNCHANGED <<gameVars, searchVars>>

\* best_move panics: the closure unwinds and the sender is dropped.
WorkerPanic(k) ==
  /\ probe.workers[k].at = "best_move"
  /\ probe' = [probe EXCEPT !.workers[k].at = "exited", !.channels[k].sender = FALSE]
  /\ UNCHANGED <<gameVars, searchVars>>

\* tx.send(eval): the result, here with the board it was computed for.
WorkerSend(k) ==
  /\ probe.workers[k].at = "send"
  /\ probe' = [probe EXCEPT !.workers[k].at = "sent",
                            !.channels[k].queue =
                               Append(@, [eval |-> probe.workers[k].eval,
                                          board |-> probe.workers[k].board])]
  /\ UNCHANGED <<gameVars, searchVars>>

\* The closure ends: the sender is dropped.
WorkerExit(k) ==
  /\ probe.workers[k].at = "sent"
  /\ probe' = [probe EXCEPT !.workers[k].at = "exited", !.channels[k].sender = FALSE]
  /\ UNCHANGED <<gameVars, searchVars>>

Worker ==
  \E k \in DOMAIN probe.workers :
    \/ WorkerBegin(k)
    \/ WorkerReturn(k)
    \/ WorkerPanic(k)
    \/ WorkerSend(k)
    \/ WorkerExit(k)

\* spawn_new_eval_thread up to its recv: the store of true.
spawn_new_eval_thread_enter(g) ==
  [g EXCEPT !.flags[g.eval_stop_flag] = TRUE, !.gui = "recv"]

\* `if eval { eval_depth = 1; spawn_new_eval_thread(..) }`
respawn_if_eval(g) == IF g.eval THEN spawn_new_eval_thread_enter(g) ELSE g

\* The checkbox is cleared: lines 120-122.
GuiEvalOff ==
  /\ probe.gui = "frame"
  /\ probe' = [probe EXCEPT !.eval = FALSE, !.flags[probe.eval_stop_flag] = TRUE]
  /\ UNCHANGED <<gameVars, searchVars>>

\* The checkbox is set again: lines 123-130.
GuiEvalOn ==
  /\ probe.gui = "frame"
  /\ ~probe.eval
  /\ Len(probe.workers) < MaxWorkers
  /\ probe' = spawn_new_eval_thread_enter([probe EXCEPT !.eval = TRUE])
  /\ UNCHANGED <<gameVars, searchVars>>

\* The board changes by the undo or redo button, a move of the user, a
\* promotion, ctrl-z or ctrl-y: lines 180-204, 358-370, 457-466, 496-523.
GuiBoardChanged ==
  /\ probe.gui = "frame"
  /\ Len(probe.workers) < MaxWorkers
  /\ \E b \in Boards \ {probe.board} :
       probe' = respawn_if_eval([probe EXCEPT !.board = b])
  /\ UNCHANGED <<gameVars, searchVars>>

\* The key 'm': the engine is to move in the next frame (lines 484-488).
GuiEngineKey ==
  /\ probe.gui = "frame"
  /\ ~probe.engine_move_next_frame
  /\ probe' = [probe EXCEPT !.engine_move_next_frame = TRUE]
  /\ UNCHANGED <<gameVars, searchVars>>

\* The key 'd': the engine's last move is taken back and the engine is to
\* move again in the next frame (lines 489-495).
GuiTakeBack ==
  /\ probe.gui = "frame"
  /\ ~probe.engine_move_next_frame
  /\ \E b \in Boards \ {probe.board} :
       probe' = [probe EXCEPT !.board = b, !.engine_move_next_frame = TRUE]
  /\ UNCHANGED <<gameVars, searchVars>>

\* The key 'r': game_state = GameState::default() (lines 527-530).
GuiReset ==
  /\ probe.gui = "frame"
  /\ ~probe.engine_move_next_frame
  /\ probe.board # 0
  /\ probe' = [probe EXCEPT !.board = 0]
  /\ UNCHANGED <<gameVars, searchVars>>

\* Lines 375-422: the engine moves (or finds no move) in the foreground.
GuiEngineMove ==
  /\ probe.gui = "frame"
  /\ probe.engine_move_next_frame
  /\ Len(probe.workers) < MaxWorkers
  /\ \E b \in Boards :
       probe' = respawn_if_eval([probe EXCEPT !.board = b,
                                              !.engine_move_next_frame = FALSE])
  /\ UNCHANGED <<gameVars, searchVars>>

\* Lines 208-224: a queued result is taken; Some(result) is shown, and with
\* eval on asks for the next depth.
GuiTryRecv ==
  /\ probe.gui = "frame"
  /\ Len(probe.workers) < MaxWorkers
  /\ probe.channels[probe.eval_handle].queue # <<>>
  /\ LET h == probe.eval_handle
         message == Head(probe.channels[h].queue)
         g == [probe EXCEPT !.channels[h].queue = Tail(@),
                            !.channels[h].taken = "try_recv"]
     IN  probe' = IF message.eval = "Some"
                    THEN respawn_if_eval(
                           [g EXCEPT !.consumed = [some |-> TRUE, eval |-> probe.eval,
                                                   for |-> message.board,
                                                   at |-> probe.board]])
                    ELSE g
  /\ UNCHANGED <<gameVars, searchVars>>

\* spawn_new_eval_thread from its recv on: lines 641-643.
GuiRecv ==
  /\ probe.gui = "recv"
  /\ LET h == probe.eval_handle
         channel == probe.channels[h]
         g == IF channel.queue # <<>>
                THEN [probe EXCEPT !.channels[h].queue = Tail(@),
                                   !.channels[h].taken = "recv"]
                ELSE probe
         fresh == new_flag(probe.flags)
     IN  /\ recv_ready(channel)
         /\ probe' = spawn_eval_thread(
                       [g EXCEPT !.flags = fresh, !.eval_stop_flag = Len(fresh),
                                 !.gui = "frame"],
                       Len(fresh))
  /\ UNCHANGED <<gameVars, searchVars>>

NextGui ==
  \/ Worker
  \/ GuiEvalOff
  \/ GuiEvalOn
  \/ GuiBoardChanged
  \/ GuiEngineKey
  \/ GuiTakeBack
  \/ GuiReset
  \/ GuiEngineMove
  \/ GuiTryRecv
  \/ GuiRecv

SpecGui == InitGui /\ [][NextGui]_vars

(* ------------------------ GameState of the GUI ----------------------- *)

\* Longest line of moves a game is followed along.
MaxMoves == 3

\* Positions the GameState is made from (from_board, from_fen).
GameStateStarts == {1, 20, 40}

\* from_board: the queues empty, no last move.
GameState_from_board(b) ==
  [board |-> HistoryBoard_new(b), undo_queue |-> <<>>, redo_queue |-> <<>>,
   last_move |-> None, panic |-> FALSE, returned |-> TRUE]

\* make_move: lines 49-55.
GameState_make_move(g, m) ==
  [g EXCEPT !.undo_queue = Append(@, <<g.board, m>>),
            !.redo_queue = <<>>,
            !.board = HistoryBoard_make_move(g.board, m),
            !.last_move = Some(m),
            !.returned = TRUE]

\* undo_move that pushes the popped pair onto the redo queue.
GameState_undo_move_popped(g) ==
  IF g.undo_queue = <<>> THEN [g EXCEPT !.returned = FALSE]
  ELSE IF ~IsSome(g.last_move) THEN [g EXCEPT !.panic = TRUE]
  ELSE LET popped == g.undo_queue[Len(g.undo_queue)]
       IN  [g EXCEPT !.undo_queue = SubSeq(@, 1, Len(@) - 1),
                     !.redo_queue = Append(@, popped),
                     !.board = popped[1],
                     !.last_move = Some(popped[2]),
                     !.returned = TRUE]

\* undo_move: lines 84-95; `returned` is its bool, `panic` the unwrap of None.
GameState_undo_move(g) ==
  IF g.undo_queue = <<>> THEN [g EXCEPT !.returned = FALSE]
  ELSE IF ~IsSome(g.last_move) THEN [g EXCEPT !.panic = TRUE]
  ELSE LET popped == g.undo_queue[Len(g.undo_queue)]
       IN  [g EXCEPT !.undo_queue = SubSeq(@, 1, Len(@) - 1),
                     !.redo_queue = Append(@, <<g.board, Unwrap(g.last_move)>>),
                     !.board = popped[1],
                     !.last_move = Some(popped[2]),
                     !.returned = TRUE]

\* redo_move: lines 97-108.
GameState_redo_move(g) ==
  IF g.redo_queue = <<>> THEN [g EXCEPT !.returned = FALSE]
  ELSE IF ~IsSome(g.last_move) THEN [g EXCEPT !.panic = TRUE]
  ELSE LET popped == g.redo_queue[Len(g.redo_queue)]
       IN  [g EXCEPT !.redo_queue = SubSeq(@, 1, Len(@) - 1),
                     !.undo_queue = Append(@, <<g.board, Unwrap(g.last_move)>>),
                     !.board = popped[1],
                     !.last_move = Some(popped[2]),
                     !.returned = TRUE]

\* The calls made so far, newest last, each with the GameState it was made
\* on; only the last two are kept.
Called(name, g, calls) ==
  LET all == Append(calls, [op |-> name, on |-> g])
  IN  IF Len(all) > 2 THEN Tail(all) ELSE all

InitGameState ==
  /\ GameInit({1})
  /\ SearchIdle
  /\ \E b \in GameStateStarts :
       probe = [state |-> GameState_from_board(b),
                initial |-> HistoryBoard_new(b),
                calls |-> <<>>]

GameStateMakeMove ==
  /\ ~probe.state.panic
  /\ Len(probe.state.undo_queue) < MaxMoves
  /\ \E m \in Range(new_legal(probe.state.board.board)) :
       probe' = [probe EXCEPT !.state = GameState_make_move(probe.state, m),
                              !.calls = Called("make_move", probe.state, @)]
  /\ UNCHANGED <<gameVars, searchVars>>

GameStateUndoMove ==
  /\ ~probe.state.panic
  /\ probe' = [probe EXCEPT !.state = GameState_undo_move(probe.state),
                            !.calls = Called("undo_move", probe.state, @)]
  /\ UNCHANGED <<gameVars, searchVars>>

GameStateRedoMove ==
  /\ ~probe.state.panic
  /\ probe' = [probe EXCEPT !.state = GameState_redo_move(probe.state),
                            !.calls = Called("redo_move", probe.state, @)]
  /\ UNCHANGED <<gameVars, searchVars>>

NextGameState ==
  \/ GameStateMakeMove
  \/ GameStateUndoMove
  \/ GameStateRedoMove

SpecGameState == InitGameState /\ [][NextGameState]_vars

(* ------------------------------ claims ------------------------------- *)

RootLegal == new_legal(hb.board)

\* The root moves whose successor's status() is Checkmate.
MatingMoves ==
  {m \in Range(RootLegal) :
     HistoryBoard_status(HistoryBoard_make_move(hb, m)) = "Checkmate"}

\* C1: best_move never panics: whatever the root position, the repetition
\* history and the time control, it returns None or Some(result).
C1_NeverPanics == pc # "panic"

C4_DepthReached ==
  (/\ variant = "core"
   /\ tc.mode = "Depth" /\ tc.n >= 1
   /\ ~stop_flag
   /\ pc \in {"done", "panic"}
   /\ exit \notin {"mate", "lose"}) =>
     /\ pc = "done"
     /\ IsSome(result)
     /\ Unwrap(result).reached_depth = tc.n
     /\ current_depth = tc.n + 1

\* C5: should_stop answers true exactly when the flag is present and set,
\* or the mode is MoveTime(L) and elapsed >= L, or the mode is Depth(D) and
\* reached_depth >= D; under Infinite with no set flag it answers false.
C5_ShouldStop ==
  probe.called =>
     /\ probe.out <=>
          \/ probe.tc.has_flag /\ probe.flag
          \/ probe.tc.mode = "MoveTime" /\ probe.elapsed >= probe.tc.n
          \/ probe.tc.mode = "Depth" /\ probe.reached_depth >= probe.tc.n
     /\ (probe.tc.mode = "Infinite" /\ ~(probe.tc.has_flag /\ probe.flag)) => ~probe.out

C5_Witness ==
  /\ probe.called
  /\ probe.tc.mode = "MoveTime" /\ probe.elapsed = probe.tc.n
  /\ ~probe.flag
  /\ probe.out

\* C6: under Depth(D), for every D including 0, with the flag absent or
\* false, no negamax call returns the abort sentinel.
C6_DepthModeNeverAborts ==
  (tc.mode = "Depth" /\ ~(tc.has_flag /\ stop_flag)) => aborts = 0

\* C7: when the root position has no legal move, best_move returns None
\* for every time control, calls negamax never and writes no info line.
C7_NoLegalMove ==
  (pc # "idle" /\ RootLegal = <<>>) =>
     /\ pc \in {"loop", "done"}
     /\ pc = "done" => exit = "lose"
     /\ result = None
     /\ negamax_calls = 0
     /\ uci_sink = <<>>

C7_Witness ==
  /\ pc = "done"
  /\ RootLegal = <<>>
  /\ result = None

\* C8: when the root position has exactly one legal move, best_move
\* returns it at once with deep_eval -1, reached_depth 0, millis 0 and no
\* reply, without running negamax.
C8_SingleMoveFastPath ==
  (pc \in {"done", "panic"} /\ Len(RootLegal) = 1 /\ exclude_moves = {}) =>
     /\ pc = "done"
     /\ result = Some(ChooserResult(RootLegal[1], None, -1, 0, 0))
     /\ negamax_calls = 0

\* The HistoryBoards in sight: the game's board and its successors.
BoardsInSight ==
  {hb} \cup {HistoryBoard_make_move(hb, m) : m \in Range(RootLegal)}

\* C9: status() is Stalemate whenever the count stored for the current
\* position's hash is at least 3, whatever the rules library reports, and
\* is the rules library's status when the count is below 3.
C9_StatusOverride ==
  \A x \in BoardsInSight :
     /\ x.history[get_hash(x.board)] >= 3 => HistoryBoard_status(x) = "Stalemate"
     /\ x.history[get_hash(x.board)] < 3 => HistoryBoard_status(x) = Board_status(x.board)

C9_Witness ==
  /\ hb.history[get_hash(hb.board)] >= 3
  /\ Board_status(hb.board) = "Ongoing"
  /\ HistoryBoard_status(hb) = "Stalemate"

\* C10: after any sequence of make_move calls, history[h] is the number of
\* positions with hash h on the path played, for every hash h; so the
\* count of the current position's hash is at least 1.
C10_HistoryCounts ==
  /\ \A h \in Hashes : hb.history[h] = occurrences[h]
  /\ hb.history[get_hash(hb.board)] >= 1

\* C11: eval(P) = -eval(P') for every position P, where P' is P with the
\* colours swapped and the board mirrored vertically, in both phases.
C11_EvalSymmetry ==
  probe.called => probe.score = -probe.mirror_score

\* C12: for every piece kind and square the Black row of SQUARE_SCORES is
\* the White row at the square XOR 56; the same holds for the rows of
\* ENDGAME_PAWN_SCORES and of ENDGAME_KING_SCORES.
C12_TablesMirrored ==
  probe.called => probe.black = probe.white

\* Pawns of a colour on a file beyond the other colour's pawns there.
ExtraPawns(ps, colour, file) ==
  LET own == PawnsOnFile(ps, colour, file)
      opp == PawnsOnFile(ps, 1 - colour, file)
  IN  IF own > opp THEN own - opp ELSE 0

RECURSIVE Charge(_, _, _)
Charge(ps, colour, file) ==
  IF file > 7 THEN 0
  ELSE 45 * ExtraPawns(ps, colour, file) + Charge(ps, colour, file + 1)

\* C13: the pawn-structure term of eval is, over the 8 files, -45 times
\* (white pawns - black pawns) on the file: each side is charged 45 for
\* every pawn it has on a file beyond the opponent's pawns there, and only
\* for those.
C13_PawnTerm ==
  probe.called =>
     probe.score - probe.piece_sum =
        Charge(probe.placement, Black, 0) - Charge(probe.placement, White, 0)

C13_Witness ==
  /\ probe.called
  /\ \E f \in 0..7 :
       /\ PawnsOnFile(probe.placement, Black, f) >= 1
       /\ PawnsOnFile(probe.placement, White, f) > PawnsOnFile(probe.placement, Black, f)
  /\ probe.score - probe.piece_sum < 0

\* The largest element of a non-empty set of integers.
MaxOf(S) == CHOOSE x \in S : \A y \in S : y <= x

Clamp(v, lo, hi) == IF v <= lo THEN lo ELSE IF v >= hi THEN hi ELSE v

\* The quiescence value and the negamax value of a node with no window and
\* no pruning.
RECURSIVE ExactQ(_)
ExactQ(x) ==
  CASE HistoryBoard_status(x) = "Checkmate" -> -MATE_SCORE
    [] HistoryBoard_status(x) = "Stalemate" -> draw_score(x)
    [] HistoryBoard_status(x) = "Ongoing" ->
         MaxOf({side_eval(x)} \cup
               {-ExactQ(HistoryBoard_make_move(x, m)) :
                  m \in {n \in Range(new_legal(x.board)) : ~is_quiet(n, x.board)}})

RECURSIVE Exact(_, _)
Exact(x, depth) ==
  IF depth = 0 THEN ExactQ(x)
  ELSE CASE HistoryBoard_status(x) = "Checkmate" -> -MATE_SCORE
         [] HistoryBoard_status(x) = "Stalemate" -> draw_score(x)
         [] HistoryBoard_status(x) = "Ongoing" ->
              MaxOf({-Exact(HistoryBoard_make_move(x, m), depth - 1) :
                       m \in Range(new_legal(x.board))})

\* C14: move ordering does not change scores: on an Ongoing node negamax
\* returns the unpruned negamax value clamped to [alpha, beta], in the
\* code's move order and under every rearrangement of the move lists; and a
\* root depth that runs through all candidates ends with alpha equal to the
\* largest exact value of a root move.
C14_OrderIndependent ==
  probe.called =>
     /\ probe.value = Clamp(Exact(hb, probe.depth), probe.alpha, probe.beta)
     /\ probe.ordered_value = Clamp(Exact(hb, probe.depth), probe.alpha, probe.beta)
     /\ ~mate_found(probe.root_alpha) =>
          probe.root_alpha =
             MaxOf({-Exact(HistoryBoard_make_move(hb, m), probe.depth) :
                      m \in Range(new_legal(hb.board))})

C14_Witness ==
  /\ probe.called
  /\ Len(new_legal(hb.board)) >= 2
  /\ probe.depth >= 2
  /\ probe.policy.k # 0
  /\ probe.alpha < Exact(hb, probe.depth) /\ Exact(hb, probe.depth) < probe.beta
  /\ probe.ordered_value = Exact(hb, probe.depth)
  /\ ~mate_found(probe.root_alpha)

\* C15: under Infinite with a shared cancel flag, once the flag is set the
\* running best_move returns at its next step (the negamax call of the next
\* root move aborts, or the end-of-depth check stops the loop), and when
\* root depth 1 has completed the value returned is Some with
\* reached_depth >= 1.
CancelPending ==
  /\ variant = "core"
  /\ tc.mode = "Infinite" /\ tc.has_flag
  /\ stop_flag
  /\ pc = "loop"

C15_CancelReturns ==
  [][CancelPending =>
       /\ pc' = "done"
       /\ current_depth' >= 2 =>
            /\ IsSome(result')
            /\ Unwrap(result').reached_depth >= 1]_vars

\* The workers inside best_move.
Searching == {k \in DOMAIN probe.workers : probe.workers[k].at = "best_move"}

\* C16: in the GUI, in every interleaving of the GUI thread and the
\* workers, at most one background worker is executing best_move: the next
\* worker is spawned only after the old one sent its result or dropped its
\* sender, also when that result was already taken by try_recv.
C16_OneWorker == Cardinality(Searching) <= 1

C16_Witness ==
  \E k \in DOMAIN probe.workers :
    /\ k >= 2
    /\ probe.workers[k].at = "best_move"
    /\ probe.channels[k - 1].taken = "try_recv"
    /\ probe.workers[k - 1].at = "exited"

\* C17: the cancel flag handed to a search is one-way: once true it stays
\* true; the workers never write it, the GUI only stores true, and the
\* next worker gets a new flag object.
C17_FlagMonotone ==
  [][/\ Len(probe.flags') >= Len(probe.flags)
     /\ \A k \in DOMAIN probe.flags : probe.flags[k] => probe.flags'[k]]_vars

C17_Witness ==
  \E k \in DOMAIN probe.workers :
    /\ k >= 2
    /\ probe.workers[k].at = "best_move"
    /\ probe.workers[k].flag # probe.workers[k - 1].flag
    /\ ~probe.flags[probe.workers[k].flag]
    /\ probe.flags[probe.workers[k - 1].flag]

\* The root depths whose for loop ran through every root move with no
\* abort, no mate cutoff and no exit on a lost position.
CompletedDepths == IF pc = "panic" THEN current_depth ELSE current_depth - 1

\* C18: in every run of best_move exactly one info line is written for
\* each root depth that completes and none for any other depth; the lines
\* carry seldepth 1, 2, ..., k in this order and a returned result has
\* reached_depth = k.
C18_InfoLines ==
  variant = "core" =>
    /\ Len(uci_sink) = CompletedDepths
    /\ \A j \in DOMAIN uci_sink : uci_sink[j].seldepth = j
    /\ (pc = "done" /\ IsSome(result)) =>
          Unwrap(result).reached_depth = Len(uci_sink)

\* The info line of the last completed depth: what that depth committed.
Committed == uci_sink[current_depth - 1]

\* An abort during a root depth d >= 2 has ended best_move.
AbortedLater ==
  /\ variant = "core"
  /\ pc = "done" /\ exit = "abort"
  /\ current_depth >= 2

ImprovedAndChanged ==
  /\ alpha > Committed.score
  /\ curr_best_move # Some(Committed.pv[1])

\* C19: after an abort during root depth d >= 2 the result has
\* reached_depth = d - 1; it carries the in-progress depth's current best
\* and alpha when alpha exceeds the score committed at depth d - 1 and the
\* current best is another move than the committed one, and otherwise
\* exactly the move, reply and score committed at depth d - 1.
C19_AbortLater ==
  AbortedLater =>
    /\ IsSome(result)
    /\ Unwrap(result).reached_depth = current_depth - 1
    /\ IF ImprovedAndChanged
         THEN /\ Some(Unwrap(result).best_move) = curr_best_move
              /\ Unwrap(result).deep_eval = alpha
         ELSE /\ Unwrap(result).best_move = Committed.pv[1]
              /\ Unwrap(result).response = Some(Committed.pv[2])
              /\ Unwrap(result).deep_eval = Committed.score

C19_Witness ==
  /\ AbortedLater
  /\ ImprovedAndChanged
  /\ Unwrap(result).best_move # Committed.pv[1]

\* An abort that committed the in-progress depth: at depth 1 nothing was
\* committed before, so any scored root move is an improvement.
PartialCommit ==
  /\ variant = "core"
  /\ pc = "done" /\ exit = "abort"
  /\ IF current_depth = 1 THEN IsSome(curr_best_move) ELSE ImprovedAndChanged

\* C20: when an abort commits the in-progress depth, the reply stored in
\* the result is the reply recorded with that depth's current best move.
C20_PartialReply ==
  PartialCommit =>
    /\ IsSome(result)
    /\ Unwrap(result).response = curr_response

\* The negamax call of the root move that is next in the for loop, under a
\* budget of polls.
RootCall(b) ==
  negamax(HistoryBoard_make_move(hb, candidates[i]), current_depth, -INF, -alpha,
          b, node_count)

\* The polls that call makes when none of them fires.
RootPolls == 100 - RootCall(100).budget

\* C21: when a poll inside the subtree of a root move fires, the call of
\* that root move returns the abort sentinel with no reply and no sibling
\* examined after it, and the root driver takes no score from it; a score
\* enters alpha only from a call in whose subtree no poll fired, and then
\* it is the score of the undisturbed call.
C21_AbortPropagates ==
  [][(pc = "loop" /\ i <= Len(candidates)) =>
       /\ \A b \in 0..MaxBudget :
            /\ IsSome(RootCall(b).value) <=> RootPolls <= b
            /\ IsSome(RootCall(b).value) =>
                 /\ RootCall(b).value = RootCall(Unlimited).value
                 /\ RootCall(b).response = RootCall(Unlimited).response
                 /\ RootCall(b).node_count = RootCall(Unlimited).node_count
            /\ ~IsSome(RootCall(b).value) =>
                 /\ RootCall(b).response = None
                 /\ RootCall(b).budget = 0
                 /\ RootCall(b).node_count <= RootCall(Unlimited).node_count
       /\ aborts' > aborts =>
            /\ pc' = "done"
            /\ UNCHANGED <<alpha, curr_best_move, curr_response, curr_best_move_index>>
       /\ alpha' # alpha =>
            /\ aborts' = aborts
            /\ alpha' = -Unwrap(RootCall(Unlimited).value)]_vars

\* The first root move of depth 2 was aborted below its own poll, after a
\* leaf of its subtree had been evaluated.
C21_Witness ==
  /\ pc = "done" /\ exit = "abort"
  /\ current_depth = 2
  /\ i = 1
  /\ node_count > 0

\* The draw score the spec gives for a node, from the evaluator alone.
BiasedDraw ==
  IF (IF PosSide[hb.board] = White THEN eval(PosPieces[hb.board])
                                   ELSE -eval(PosPieces[hb.board])) < -333
    THEN 15000
    ELSE -15000

\* C22: at a node whose status is Stalemate (stalemate or threefold),
\* negamax with depth >= 1 and qsearch both return +MATE_SCORE/2 when the
\* evaluator's score for the side to move is below -333 and -MATE_SCORE/2
\* otherwise, whatever alpha and beta are.
C22_DrawScore ==
  (probe.called /\ HistoryBoard_status(hb) = "Stalemate") =>
    /\ probe.negamax_value = Some(BiasedDraw)
    /\ probe.qsearch_value = BiasedDraw

\* A threefold node on a board with moves left, the side to move far behind.
C22_Witness ==
  /\ probe.called
  /\ HistoryBoard_status(hb) = "Stalemate"
  /\ Board_status(hb.board) = "Ongoing"
  /\ probe.qsearch_value = 15000
  /\ probe.negamax_value = Some(15000)

\* The piece standing on a square of the node's board, as <<colour, kind>>.
Standing(sq) ==
  {<<t[2], t[3]>> : t \in {u \in Range(PosPieces[hb.board]) : u[1] = sq}}

\* The legal moves onto a square holding a piece worth at least the mover.
WorthTaking ==
  {m \in Range(PosMoves[hb.board]) :
     \E mover \in Standing(m[1]), taken \in Standing(m[2]) :
       PIECE_VALUES[taken[2] + 1] >= PIECE_VALUES[mover[2] + 1]}

WorthTakingSorted ==
  LET Worth(m) == m \in WorthTaking
  IN  sort_moves(SelectSeq(PosMoves[hb.board], Worth), hb.board)

\* C23 as stated: qsearch recurses into exactly the legal moves whose
\* destination holds a piece worth at least the mover.
C23_ExploresAllCaptures ==
  (probe.called /\ HistoryBoard_status(hb) = "Ongoing") =>
    Range(probe.trace.explored) = WorthTaking

\* C23 as amended: at a node whose status is Ongoing, qsearch recurses
\* only into legal moves whose destination holds a piece worth at least the
\* mover, in the order of their priority; it recurses into all of them when
\* it returns a value below beta, and into none or only the first ones of
\* them when the stand-pat score or a move's value reaches beta.  A move
\* onto an empty square or a capture of a less valuable piece is never
\* explored.
C23_ExploresCaptures ==
  (probe.called /\ HistoryBoard_status(hb) = "Ongoing") =>
    /\ Len(probe.trace.explored) <= Len(WorthTakingSorted)
    /\ probe.trace.explored = SubSeq(WorthTakingSorted, 1, Len(probe.trace.explored))
    /\ probe.qsearch_value < probe.beta => probe.trace.explored = WorthTakingSorted
    /\ Len(probe.trace.explored) < Len(WorthTakingSorted) => probe.qsearch_value = probe.beta

\* The loop was left at its first capture, the second was not explored.
C23_Witness ==
  /\ probe.called /\ HistoryBoard_status(hb) = "Ongoing"
  /\ Len(probe.trace.explored) = 1
  /\ Len(WorthTakingSorted) = 2
  /\ side_eval(hb) < probe.beta

\* C24: qsearch ends on every position without consulting the time
\* control: a depth-0 node returns its qsearch score even when no poll is
\* left, every recursive qsearch call is made on a board with exactly one
\* piece fewer than its parent's, and the recursion is at most (pieces on
\* the node's board - 2) deep.
C24_QsearchShrinks ==
  probe.called =>
    /\ probe.leaf.value = Some(probe.qsearch_value)
    /\ probe.leaf.budget = 0
    /\ probe.trace.shrinks
    /\ probe.trace.depth <= PieceCount(hb.board) - 2

\* A capture answered by a capture.
C24_Witness ==
  /\ probe.called
  /\ probe.trace.depth >= 2
  /\ probe.trace.shrinks

\* The root moves best_move starts from: the legal moves, in src/chooser.rs
\* without the excluded ones.
InitialRootMoves ==
  IF variant = "app" THEN Range(RootLegal) \ exclude_moves ELSE Range(RootLegal)

\* C25: after every completed root depth the root-move list is a
\* permutation of the initial root moves, none lost and none twice, and its
\* first element is the best move of the depth just completed, the move
\* the next depth searches first.
C25_RootList ==
  pc # "idle" =>
    /\ Len(candidates) = Cardinality(InitialRootMoves)
    /\ Range(candidates) = InitialRootMoves
    /\ uci_sink # <<>> => candidates[1] = uci_sink[Len(uci_sink)].pv[1]

\* Depth 1 found its best move behind the first one; depth 2 starts with it.
C25_Witness ==
  /\ variant = "core"
  /\ pc = "loop"
  /\ current_depth = 2
  /\ i = 1
  /\ candidates # sort_moves(candidates, hb.board)
  /\ candidates[1] = uci_sink[1].pv[1]

\* C26: while eval is enabled every change of the GUI's board replaces the
\* eval worker by one on the new board before the result channel is polled
\* again, so a result taken by try_recv with eval enabled was computed for
\* the board that is current when it is taken.
C26_ResultForCurrentBoard ==
  (probe.consumed.some /\ probe.consumed.eval) =>
     probe.consumed.for = probe.consumed.at

C28_MoveLegal ==
  (pc = "done" /\ IsSome(result)) =>
     /\ Unwrap(result).best_move \in Range(RootLegal)
     /\ Unwrap(result).best_move \notin exclude_moves

\* A searched result, and the single-move return, with a move excluded.
C28_Witness ==
  /\ pc = "done"
  /\ IsSome(result)
  /\ exclude_moves # {}
  /\ exit \in {"abort", "single"}
  /\ Len(RootLegal) > 1

\* The last two calls were an undo_move that returned true and a redo_move.
UndoThenRedo ==
  /\ Len(probe.calls) = 2
  /\ probe.calls[1].op = "undo_move"
  /\ probe.calls[1].on.undo_queue # <<>>
  /\ probe.calls[2].op = "redo_move"

\* C29: a successful undo_move followed at once by redo_move restores the
\* board, the undo queue and the redo queue; neither call panics on
\* last_move.unwrap(); make_move empties the redo queue.
C29_UndoRedo ==
  /\ ~probe.state.panic
  /\ UndoThenRedo =>
       /\ probe.state.returned
       /\ probe.state.board = probe.calls[1].on.board
       /\ probe.state.undo_queue = probe.calls[1].on.undo_queue
       /\ probe.state.redo_queue = probe.calls[1].on.redo_queue
  /\ (probe.calls # <<>> /\ probe.calls[Len(probe.calls)].op = "make_move") =>
       probe.state.redo_queue = <<>>

\* An undo and its redo in the middle of a line, with moves to redo left.
C29_Witness ==
  /\ UndoThenRedo
  /\ probe.calls[1].on.redo_queue # <<>>
  /\ Len(probe.calls[1].on.undo_queue) > 1

\* The board the current one came from in the game, with the move played.
Predecessor == probe.state.undo_queue[Len(probe.state.undo_queue)]

====
